---- MODULE Spec2Model ----
(***************************************************************************)
(* Model of irq-freeipa-mcp: the FreeIPAClient session/RPC pipeline        *)
(* (freeipa-client.ts), the SSHManager multi-host fan-out (ssh-manager.ts) *)
(* and the tool-call handler that composes them (index.ts).                *)
(*                                                                         *)
(* JavaScript runs one callback at a time: an async function runs without  *)
(* interruption up to its next await.  Each action below is one such       *)
(* uninterrupted stretch: "Start" runs a call up to the await of its HTTP  *)
(* request, "Settle" runs it from the arrival of the response to its end.  *)
(*                                                                         *)
(* Strings that the code cuts or searches (cookies, error messages) are    *)
(* sequences of chunks; a literal of the source is one chunk.  None of the *)
(* literal chunks used here contains 'Unauthorized' or 'session'.          *)
(***************************************************************************)
EXTENDS Integers, Sequences, FiniteSets, TLC

VARIABLES
  authenticated,   \* FreeIPAClient.authenticated
  cookies,         \* FreeIPAClient.cookies
  requestId,       \* FreeIPAClient.requestId
  sent,            \* ids of the RPC requests posted so far, in send order
  task,            \* the client calls in flight, one slot per concurrent caller
  last,            \* the promise settled most recently, as its caller sees it
  batch,           \* the executeOnMultipleHosts call: its hosts and its promise
  exec,            \* per position of hosts: the executeCommand and the map callback
  results,         \* the results Map of the batch, hostname -> SSHCommandResult
  ssh,             \* the SSHManager method called: its arguments and its promise
  isAuthenticated, \* the dispatcher's flag (index.ts)
  loginCalled,     \* ensureAuthenticated has called authenticate() since the flag
                   \* was last cleared (since the start, when it never was)
  calc             \* a function of the program applied to drawn inputs, and its value

clientVars == <<authenticated, cookies, requestId, sent>>
rpcVars == <<authenticated, cookies, requestId, sent, task, last, isAuthenticated, loginCalled>>
fleetVars == <<batch, exec, results, ssh>>
vars == <<authenticated, cookies, requestId, sent, task, last, batch, exec, results,
          ssh, isAuthenticated, loginCalled, calc>>

(* ------------------------------ bounds --------------------------------- *)
MaxTasks == 2
MaxRequests == 2
MaxHosts == 2
MaxChunks == 1
MaxIdLen == 2

Tasks == 1..MaxTasks

(* ------------------------------ strings -------------------------------- *)
\* String.prototype.includes(w) for a one-chunk needle w
Includes(msg, w) == \E i \in 1..Len(msg) : msg[i] = w

\* String.prototype.split(';')[0]: the text before the first semicolon
RECURSIVE BeforeSemicolon(_)
BeforeSemicolon(s) ==
  IF s = <<>> THEN <<>>
  ELSE IF Head(s) = ";" THEN <<>>
  ELSE <<Head(s)>> \o BeforeSemicolon(Tail(s))

\* Array.prototype.join('; ')
RECURSIVE JoinCookies(_)
JoinCookies(parts) ==
  IF parts = <<>> THEN <<>>
  ELSE IF Len(parts) = 1 THEN Head(parts)
  ELSE Head(parts) \o <<";", " ">> \o JoinCookies(Tail(parts))

\* the Set-Cookie headers are joined whole, attributes included
CookieHeader_WholeCookies(setCookies) == JoinCookies(setCookies)
\* setCookies.map(cookie => cookie.split(';')[0]).join('; ')
CookieHeader(setCookies) ==
  JoinCookies([i \in 1..Len(setCookies) |-> BeforeSemicolon(setCookies[i])])

(* ------------------------------ errors --------------------------------- *)
\* the value of FreeIPAError.code when the constructor got no code
NoCode == -1
\* errorName argument left out
NoName == ""

\* the constructor drops the code
FreeIPAError_NoCode(message, code, errorName) ==
  [name |-> IF errorName # "" THEN errorName ELSE "FreeIPAError",
   message |-> message, code |-> NoCode]
\* new FreeIPAError(message, code, errorName)
FreeIPAError(message, code, errorName) ==
  [name |-> IF errorName # "" THEN errorName ELSE "FreeIPAError",
   message |-> message, code |-> code]

Resolved(v) == [ok |-> TRUE, value |-> v]
Rejected(e) == [ok |-> FALSE, error |-> e]
NoOutcome == [ok |-> FALSE, error |-> [name |-> "", message |-> <<>>, code |-> NoCode]]

(* ------------------------- the HTTP collaborator ----------------------- *)
HttpStatuses == {200, 201, 401}
StatusText(s) == CASE s = 200 -> "200" [] s = 201 -> "201" [] OTHER -> "401"

\* axios default validateStatus: a 2xx response resolves the post(), any
\* other status rejects it with an error that carries the response
ValidateStatus(s) == s >= 200 /\ s < 300
AxiosStatusMessage(s) == <<"Request failed with status code ", StatusText(s)>>

\* transport failures: no response was obtained
TransportErrors == {<<"connect ECONNREFUSED">>}

SetCookieLists ==
  { << <<"c=3">> >>,
    << <<"a=1", ";", " Path=/">>, <<"b=2", ";", " HttpOnly">> >> }

LoginReplies ==
  [kind : {"http"}, status : HttpStatuses, hasSetCookie : {TRUE}, setCookie : SetCookieLists]
    \cup [kind : {"http"}, status : HttpStatuses, hasSetCookie : {FALSE}, setCookie : {<<>>}]
    \cup [kind : {"transport"}, message : TransportErrors]

\* fault objects {code, message, name} a response body can carry
DuplicateEntry == [code |-> 4001, message |-> <<"already exists">>, name |-> "DuplicateEntry"]
Faults ==
  { DuplicateEntry,
    [code |-> 401, message |-> <<"denied">>, name |-> ""],
    [code |-> 2100, message |-> <<"401 ", "Unauthorized">>, name |-> "ACIError"],
    [code |-> 2101, message |-> <<"no ", "session">>, name |-> "SessionError"] }
Payloads == {"p1"}
\* result.result?.result when the body has no result
Undefined == "undefined"

\* response body: {result: {result: payload}, error?: fault}
Bodies ==
  [hasResult : {TRUE}, payload : Payloads, hasError : {FALSE}, error : {<<>>}]
    \cup [hasResult : {FALSE}, payload : {Undefined}, hasError : {TRUE}, error : Faults]
    \cup [hasResult : {TRUE}, payload : Payloads, hasError : {TRUE}, error : {DuplicateEntry}]
    \cup [hasResult : {FALSE}, payload : {Undefined}, hasError : {FALSE}, error : {<<>>}]

RpcReplies ==
  [kind : {"http"}, status : HttpStatuses, body : Bodies]
    \cup [kind : {"transport"}, message : TransportErrors]

(* --------------------------- FreeIPAClient ----------------------------- *)
\* a cookie already stored is kept: only the first login stores one
AuthenticateResult_KeepsCookie(reply) ==
  IF reply.kind = "http" /\ ValidateStatus(reply.status)
  THEN IF reply.status = 200
       THEN [authenticated |-> TRUE,
             cookies |-> IF reply.hasSetCookie /\ cookies = <<>>
                         THEN CookieHeader(reply.setCookie) ELSE cookies,
             out |-> Resolved("true")]
       ELSE [authenticated |-> authenticated, cookies |-> cookies,
             out |-> Rejected(FreeIPAError(
                      <<"Authentication failed: HTTP ", StatusText(reply.status)>>,
                      NoCode, NoName))]
  ELSE [authenticated |-> authenticated, cookies |-> cookies,
        out |-> Rejected(FreeIPAError(
                 <<"Network error during authentication: ">>
                   \o (IF reply.kind = "http" THEN AxiosStatusMessage(reply.status)
                       ELSE reply.message),
                 NoCode, NoName))]
\* authenticate(), from the arrival of the login reply to its end: the
\* new <<authenticated, cookies>> and the outcome of the promise
AuthenticateResult(reply) ==
  IF reply.kind = "http" /\ ValidateStatus(reply.status)
  THEN IF reply.status = 200
       THEN [authenticated |-> TRUE,
             cookies |-> IF reply.hasSetCookie THEN CookieHeader(reply.setCookie) ELSE cookies,
             out |-> Resolved("true")]
       ELSE [authenticated |-> authenticated, cookies |-> cookies,
             out |-> Rejected(FreeIPAError(
                      <<"Authentication failed: HTTP ", StatusText(reply.status)>>,
                      NoCode, NoName))]
  ELSE [authenticated |-> authenticated, cookies |-> cookies,
        out |-> Rejected(FreeIPAError(
                 <<"Network error during authentication: ">>
                   \o (IF reply.kind = "http" THEN AxiosStatusMessage(reply.status)
                       ELSE reply.message),
                 NoCode, NoName))]

\* the params array collapsed to one slot when there is no positional argument
ApiParams_Collapsed(params, options) ==
  IF Len(params) > 0 THEN <<params, options>> ELSE <<options>>
\* apiParams = params.length > 0 ? [params, options] : [[], options]
ApiParams(params, options) ==
  IF Len(params) > 0 THEN <<params, options>> ELSE <<<<>>, options>>

\* the fault check of a 200 response left out
ApiCallResult_IgnoresFault(reply) ==
  IF reply.kind = "http" /\ ValidateStatus(reply.status)
  THEN IF reply.status # 200
       THEN Rejected(FreeIPAError(<<"API call failed: HTTP ", StatusText(reply.status)>>,
                                  NoCode, NoName))
       ELSE Resolved(reply.body.payload)
  ELSE IF reply.kind = "http" /\ reply.body.hasError
  THEN Rejected(FreeIPAError(reply.body.error.message, reply.body.error.code,
                             reply.body.error.name))
  ELSE Rejected(FreeIPAError(
         <<"Network error during API call: ">>
           \o (IF reply.kind = "http" THEN AxiosStatusMessage(reply.status)
               ELSE reply.message),
         NoCode, NoName))
\* apiCall(), from the arrival of the reply to its end
ApiCallResult(reply) ==
  IF reply.kind = "http" /\ ValidateStatus(reply.status)
  THEN IF reply.status # 200
       THEN Rejected(FreeIPAError(<<"API call failed: HTTP ", StatusText(reply.status)>>,
                                  NoCode, NoName))
       ELSE IF reply.body.hasError
       THEN Rejected(FreeIPAError(reply.body.error.message, reply.body.error.code,
                                  reply.body.error.name))
       ELSE Resolved(reply.body.payload)
  ELSE IF reply.kind = "http" /\ reply.body.hasError
  THEN Rejected(FreeIPAError(reply.body.error.message, reply.body.error.code,
                             reply.body.error.name))
  ELSE Rejected(FreeIPAError(
         <<"Network error during API call: ">>
           \o (IF reply.kind = "http" THEN AxiosStatusMessage(reply.status)
               ELSE reply.message),
         NoCode, NoName))

\* the guard left out
MustLogin_Never(flag) == FALSE
\* if (!this.authenticated) throw ...
MustLogin(flag) == ~flag

\* this.requestId++ in place of ++this.requestId
NextRequestId_Post(n) == n
\* ++this.requestId
NextRequestId(n) == n + 1

NotAuthenticated ==
  FreeIPAError(<<"Not authenticated. Call authenticate() first.">>, NoCode, NoName)

\* the (method, params, options) triples the typed methods hand to apiCall
CallInputs ==
  { [method |-> "ping", params |-> <<>>, options |-> {}],
    [method |-> "cert_find", params |-> <<>>, options |-> {<<"all", TRUE>>}],
    [method |-> "user_show", params |-> <<"alice">>, options |-> {}] }

NoRequest == [method |-> "", params |-> <<>>, id |-> 0]
NoReply == [kind |-> "none"]
\* the arguments of a tool call: hosts (an array or not), mode, username,
\* force
NoArgs ==
  [hosts |-> [array |-> FALSE, items |-> <<>>], mode |-> "", username |-> <<>>,
   force |-> FALSE]
\* a slot: the call in it, where it waits, and for a tool call its name, its
\* arguments, and the position and the results Map of its loop over hosts
Idle == [op |-> "none", pc |-> "idle", tool |-> <<>>, req |-> NoRequest,
         args |-> NoArgs, k |-> 0, map |-> <<>>]
\* a failed request is posted again: the call keeps waiting
AfterSettle_Retry(waiting, out) == IF out.ok THEN Idle ELSE waiting
\* authenticate() and apiCall() end with the return or throw that follows
\* their single await: nothing is in flight for the caller afterwards
AfterSettle(waiting, out) == Idle
\* the record of a settled promise: who awaited it, the reply that settled it
\* (and whether that was a login or an RPC reply), its outcome, and for a tool
\* call the result the handler returned
NoToolResult == [isError |-> FALSE, text |-> <<>>, summary |-> <<>>, totalHosts |-> 0]
Settled(t, op, tool, at, reply, out, result) ==
  [task |-> t, op |-> op, tool |-> tool, at |-> at, reply |-> reply, out |-> out,
   result |-> result]
\* nothing settled yet
NoSettled == Settled(0, "none", <<>>, "start", NoReply, NoOutcome, NoToolResult)
\* the payload of the next RPC request
ApiRequest(c) ==
  [method |-> c.method, params |-> ApiParams(c.params, c.options),
   id |-> NextRequestId(requestId)]

\* the dispatcher's flag starts set
InitClient_FlagSet ==
  /\ authenticated = FALSE
  /\ cookies = <<>>
  /\ requestId = 0
  /\ sent = <<>>
  /\ task = [t \in Tasks |-> Idle]
  /\ last = NoSettled
  /\ isAuthenticated = TRUE
  /\ loginCalled = FALSE
InitClient ==
  /\ authenticated = FALSE
  /\ cookies = <<>>
  /\ requestId = 0
  /\ sent = <<>>
  /\ task = [t \in Tasks |-> Idle]
  /\ last = NoSettled
  /\ isAuthenticated = FALSE
  /\ loginCalled = FALSE

\* authenticate() up to the await of client.post(loginUrl, ...)
AuthenticateStart(t) ==
  /\ task[t].pc = "idle"
  /\ task' = [task EXCEPT ![t] = [Idle EXCEPT !.op = "authenticate", !.pc = "login_wait"]]
  /\ UNCHANGED <<clientVars, last, fleetVars, calc, isAuthenticated, loginCalled>>

\* a failed login logs the client out: the flag and the cookie are reset
AuthenticateSettle_Logout(t) ==
  /\ task[t].op = "authenticate" /\ task[t].pc = "login_wait"
  /\ \E reply \in LoginReplies :
       LET r == AuthenticateResult(reply) IN
       /\ authenticated' = (r.out.ok /\ r.authenticated)
       /\ cookies' = IF r.out.ok THEN r.cookies ELSE <<>>
       /\ last' = Settled(t, "authenticate", <<>>, "login", reply, r.out, NoToolResult)
       /\ task' = [task EXCEPT ![t] = AfterSettle(task[t], r.out)]
  /\ UNCHANGED <<requestId, sent, fleetVars, calc, isAuthenticated, loginCalled>>
\* authenticate() from the login reply to its return or throw
AuthenticateSettle(t) ==
  /\ task[t].op = "authenticate" /\ task[t].pc = "login_wait"
  /\ \E reply \in LoginReplies :
       LET r == AuthenticateResult(reply) IN
       /\ authenticated' = r.authenticated
       /\ cookies' = r.cookies
       /\ last' = Settled(t, "authenticate", <<>>, "login", reply, r.out, NoToolResult)
       /\ task' = [task EXCEPT ![t] = AfterSettle(task[t], r.out)]
  /\ UNCHANGED <<requestId, sent, fleetVars, calc, isAuthenticated, loginCalled>>

\* the request id is taken before the guard: a refused call consumes one
ApiCallStart_CountsRefused(t) ==
  /\ task[t].pc = "idle"
  /\ UNCHANGED <<fleetVars, calc, isAuthenticated, loginCalled>>
  /\ requestId < MaxRequests
  /\ requestId' = NextRequestId(requestId)
  /\ \E c \in CallInputs :
       IF MustLogin(authenticated)
       THEN /\ last' = Settled(t, "call", <<>>, "start", NoReply,
                             Rejected(NotAuthenticated), NoToolResult)
            /\ UNCHANGED <<authenticated, cookies, sent, task>>
       ELSE /\ sent' = Append(sent, NextRequestId(requestId))
            /\ task' = [task EXCEPT ![t] = [Idle EXCEPT !.op = "call", !.pc = "rpc_wait",
                                                         !.req = ApiRequest(c)]]
            /\ UNCHANGED <<authenticated, cookies, last>>
\* apiCall() up to the await of client.post(apiUrl, payload, ...), or to
\* its throw when the client is not authenticated
ApiCallStart(t) ==
  /\ task[t].pc = "idle"
  /\ UNCHANGED <<fleetVars, calc, isAuthenticated, loginCalled>>
  /\ \E c \in CallInputs :
       IF MustLogin(authenticated)
       THEN /\ last' = Settled(t, "call", <<>>, "start", NoReply,
                             Rejected(NotAuthenticated), NoToolResult)
            /\ UNCHANGED <<clientVars, task>>
       ELSE /\ requestId < MaxRequests
            /\ requestId' = NextRequestId(requestId)
            /\ sent' = Append(sent, NextRequestId(requestId))
            /\ task' = [task EXCEPT ![t] = [Idle EXCEPT !.op = "call", !.pc = "rpc_wait",
                                                         !.req = ApiRequest(c)]]
            /\ UNCHANGED <<authenticated, cookies, last>>

\* apiCall() from the reply to its return or throw
ApiCallSettle(t) ==
  /\ task[t].op = "call" /\ task[t].pc = "rpc_wait"
  /\ \E reply \in RpcReplies :
       /\ last' = Settled(t, "call", <<>>, "rpc", reply, ApiCallResult(reply), NoToolResult)
       /\ task' = [task EXCEPT ![t] = AfterSettle(task[t], ApiCallResult(reply))]
  /\ UNCHANGED <<clientVars, fleetVars, calc, isAuthenticated, loginCalled>>


(* ------------------- typed add-member methods -------------------------- *)
\* an optional string[] argument of a typed method
NotSupplied == [given |-> FALSE, value |-> <<>>]
Supplied(list) == [given |-> TRUE, value |-> list]
MemberArgs == {NotSupplied, Supplied(<<>>), Supplied(<<"alice">>)}

\* params.key = value on a mapping kept as a set of <<key, value>> pairs
Put(params, key, value) == {p \in params : p[1] # key} \cup {<<key, value>>}

\* the key is assigned whether or not the argument was supplied
RelationSupplied_Always(arg) == TRUE
\* if (users) ...: an array, even an empty one, is truthy; undefined is not
RelationSupplied(arg) == arg.given

\* if (a) params.k1 = a; if (b) params.k2 = b; ... in argument order
RECURSIVE SetRelations(_, _, _)
SetRelations(params, keys, args) ==
  IF keys = <<>> THEN params
  ELSE SetRelations(IF RelationSupplied(Head(args))
                    THEN Put(params, Head(keys), Head(args).value) ELSE params,
                    Tail(keys), Tail(args))

\* the add-member methods: the RPC method each calls, the relation key of each
\* optional argument in order, and whether params starts as { ...options }
AddMemberMethods ==
  { [name |-> "groupAddMember", method |-> "group_add_member",
     keys |-> <<"user", "group">>, spread |-> TRUE],
    [name |-> "groupRemoveMember", method |-> "group_remove_member",
     keys |-> <<"user", "group">>, spread |-> TRUE],
    [name |-> "sudoruleAddUser", method |-> "sudorule_add_user",
     keys |-> <<"user", "group">>, spread |-> FALSE],
    [name |-> "sudoruleAddHost", method |-> "sudorule_add_host",
     keys |-> <<"host", "hostgroup">>, spread |-> FALSE],
    [name |-> "sudoruleAddAllowCommand", method |-> "sudorule_add_allow_command",
     keys |-> <<"sudocmd", "sudocmdgroup">>, spread |-> FALSE],
    [name |-> "sudoruleAddDenyCommand", method |-> "sudorule_add_deny_command",
     keys |-> <<"sudocmd", "sudocmdgroup">>, spread |-> FALSE],
    [name |-> "sudoruleAddRunasuser", method |-> "sudorule_add_runasuser",
     keys |-> <<"user", "group">>, spread |-> FALSE],
    [name |-> "hbacruleAddUser", method |-> "hbacrule_add_user",
     keys |-> <<"user", "group">>, spread |-> FALSE],
    [name |-> "hbacruleAddHost", method |-> "hbacrule_add_host",
     keys |-> <<"host", "hostgroup">>, spread |-> FALSE],
    [name |-> "hbacruleAddService", method |-> "hbacrule_add_service",
     keys |-> <<"hbacsvc", "hbacsvcgroup">>, spread |-> FALSE],
    [name |-> "serviceAllowCreateKeytab", method |-> "service_allow_create_keytab",
     keys |-> <<"user", "group", "host", "hostgroup">>, spread |-> FALSE],
    [name |-> "serviceAllowRetrieveKeytab", method |-> "service_allow_retrieve_keytab",
     keys |-> <<"user", "group", "host", "hostgroup">>, spread |-> FALSE] }

\* the (method, params, options) triple the method hands to apiCall
AddMemberCall(m, cn, args, options) ==
  [method |-> m.method, params |-> <<cn>>,
   options |-> SetRelations(IF m.spread THEN options ELSE {}, m.keys, args)]

\* the options bag of groupAddMember/groupRemoveMember; the other methods take none
OptionBags(m) == IF m.spread THEN {{}, {<<"all", TRUE>>}} ELSE {{}}

(* --------------- typed delete/enable/disable methods ------------------- *)
\* the methods of the form: await this.apiCall(method, [...], {}); return true
BooleanMethods ==
  { [name |-> "userDel", method |-> "user_del"],
    [name |-> "sudoruleDel", method |-> "sudorule_del"],
    [name |-> "sudoruleEnable", method |-> "sudorule_enable"],
    [name |-> "sudoruleDisable", method |-> "sudorule_disable"],
    [name |-> "hbacruleDel", method |-> "hbacrule_del"],
    [name |-> "hbacruleEnable", method |-> "hbacrule_enable"],
    [name |-> "hbacruleDisable", method |-> "hbacrule_disable"],
    [name |-> "hostDel", method |-> "host_del"],
    [name |-> "dnsrecordDel", method |-> "dnsrecord_del"] }

\* apiCall() as its caller sees it: it throws before posting when the client
\* is not authenticated, and otherwise settles on the reply
ApiCallOutcome(flag, reply) ==
  IF MustLogin(flag) THEN Rejected(NotAuthenticated) ELSE ApiCallResult(reply)

\* the method returns what apiCall returned
BooleanMethodResult_Payload(out) == out
\* await this.apiCall(...); return true
BooleanMethodResult(out) == IF out.ok THEN Resolved("true") ELSE out

(* --------------------------- configuration ----------------------------- *)
\* JavaScript objects with string values are functions from keys to strings
Has(obj, key) == key \in DOMAIN obj
\* if (obj.key): present and not the empty string
Truthy(obj, key) == Has(obj, key) /\ obj[key] # ""
\* all objects with keys among `keys` and values in `values`
Objects(keys, values) == UNION {[K -> values] : K \in SUBSET keys}

DefaultConfig ==
  [freeipa |-> [server |-> "ipa.example.com", username |-> "admin@EXAMPLE.COM",
                password |-> ""],
   ssh |-> [username |-> "automation", password |-> ""],
   sssd |-> [domain |-> "example.com"]]

\* the password of the YAML section is merged like any other key
Omit_Nothing(obj, key) == obj
\* const { password, ...rest } = obj
Omit(obj, key) == [k \in DOMAIN obj \ {key} |-> obj[k]]
\* Object.assign(target, source)
ObjectAssign(target, source) ==
  [k \in DOMAIN target \cup DOMAIN source |->
     IF k \in DOMAIN source THEN source[k] ELSE target[k]]
\* the environment is not consulted
FromEnv_Ignored(value, env, name) == value
\* if (process.env.NAME) config.x = process.env.NAME
FromEnv(value, env, name) == IF Truthy(env, name) THEN env[name] ELSE value

\* a section of defaultConfig after the YAML section of that name
MergeSection(yamlConfig, section) ==
  IF Has(yamlConfig, section)
  THEN ObjectAssign(DefaultConfig[section], Omit(yamlConfig[section], "password"))
  ELSE DefaultConfig[section]

MergeConfig(yamlConfig, env) ==
  LET freeipaSection == MergeSection(yamlConfig, "freeipa")
      sshSection == MergeSection(yamlConfig, "ssh")
      domain == IF Has(yamlConfig, "sssd") /\ Truthy(yamlConfig["sssd"], "domain")
                THEN yamlConfig["sssd"]["domain"] ELSE DefaultConfig.sssd.domain
  IN [freeipa |-> [freeipaSection EXCEPT
                     !["password"] = FromEnv(@, env, "FREEIPA_PASSWORD"),
                     !["server"] = FromEnv(@, env, "FREEIPA_SERVER"),
                     !["username"] = FromEnv(@, env, "FREEIPA_USERNAME")],
      ssh |-> [sshSection EXCEPT
                 !["password"] = FromEnv(@, env, "SSH_PASSWORD"),
                 !["username"] = FromEnv(@, env, "SSH_USERNAME")],
      sssd |-> [domain |-> FromEnv(domain, env, "SSSD_DOMAIN")]]

\* contents of config.yaml: each section absent or an object; a key absent or
\* set, freeipa.server and sssd.domain also to '' 
YamlSections ==
  [freeipa |-> {o \in Objects({"server", "username", "password"}, {"", "yaml"}) :
                  \A k \in DOMAIN o : o[k] = "" => k = "server"},
   ssh |-> Objects({"username", "password"}, {"yaml"}),
   sssd |-> Objects({"domain"}, {"", "yaml"})]
YamlConfigs ==
  UNION { { y \in [K -> UNION {YamlSections[k] : k \in K}] :
              \A k \in K : y[k] \in YamlSections[k] } :
          K \in SUBSET {"freeipa", "ssh", "sssd"} }
\* the process environment: a variable unset or set, the password also to ''
Environments ==
  { e \in Objects({"FREEIPA_PASSWORD", "SSH_PASSWORD", "FREEIPA_SERVER",
                   "FREEIPA_USERNAME", "SSH_USERNAME", "SSSD_DOMAIN"}, {"", "env"}) :
      \A k \in DOMAIN e : e[k] = "" => k = "FREEIPA_PASSWORD" }

\* the same YAML with other password fields
PasswordFields ==
  {[given |-> FALSE, value |-> ""], [given |-> TRUE, value |-> ""],
   [given |-> TRUE, value |-> "hunter2"]}
WithPassword(section, field) ==
  IF field.given THEN ObjectAssign(section, [password |-> field.value])
  ELSE Omit(section, "password")
OtherPasswords(yamlConfig, freeipaField, sshField) ==
  [k \in DOMAIN yamlConfig |->
     IF k = "freeipa" THEN WithPassword(yamlConfig[k], freeipaField)
     ELSE IF k = "ssh" THEN WithPassword(yamlConfig[k], sshField)
     ELSE yamlConfig[k]]

\* no function is being applied
NoCalc == [fn |-> "none", pc |-> "none"]

(* ----------------------------- SSHManager ------------------------------ *)
Hostnames == {"h1", "h2"}
HostLists == UNION {[1..n -> Hostnames] : n \in 0..MaxHosts}

\* chunks the remote process writes; " " is whitespace
Chunks == {" ", "test"}
\* exit status passed to the stream's close handler
ExitCodes == {0, 1}
\* err.message of the ssh2 'error' event and of the exec callback
ConnErrors == {<<"refused">>}
ExecErrors == {<<"channel open failure">>}

\* String.prototype.trim()
RECURSIVE TrimLeft(_)
TrimLeft(s) == IF s # <<>> /\ Head(s) = " " THEN TrimLeft(Tail(s)) ELSE s
RECURSIVE TrimRight(_)
TrimRight(s) ==
  IF s # <<>> /\ s[Len(s)] = " " THEN TrimRight(SubSeq(s, 1, Len(s) - 1)) ELSE s
Trim(s) == TrimRight(TrimLeft(s))

\* reject(new SSHError(message)): the error names no host
SSHError_NoHost(message, host) ==
  [name |-> "SSHError", message |-> message, host |-> "", code |-> NoCode]
\* new SSHError(message, host); the class has no code property
SSHError(message, host) ==
  [name |-> "SSHError", message |-> message, host |-> host, code |-> NoCode]
\* the host of new SSHError(message)
NoHost == ""

\* characters of the identifiers handed to the cache commands
Letters == {"a", "h"}
Digits == {"1", "2", "7"}
IdChars == {"a", "@", ";"}
Identifiers == UNION {[1..n -> IdChars] : n \in 0..MaxIdLen}
\* /^[a-zA-Z0-9._@-]+$/
ShellSafeChars == Letters \cup Digits \cup {".", "_", "@", "-"}
\* the pattern without its anchors: one allowed character is enough
MatchesShellSafe_Unanchored(value) == \E i \in 1..Len(value) : value[i] \in ShellSafeChars
MatchesShellSafe(value) ==
  Len(value) > 0 /\ \A i \in 1..Len(value) : value[i] \in ShellSafeChars
\* validateShellSafe(value, name): the message of the SSHError it throws, <<>> if none
ValidateShellSafe(value, name) ==
  IF value = <<>> THEN <<name, " is required">>
  ELSE IF ~MatchesShellSafe(value) THEN <<name, " contains unsafe characters: ">> \o value
  ELSE <<>>

\* JavaScript numbers, as fractions in lowest terms with a positive denominator
Num(n, d) == [num |-> n, den |-> d]
Timeouts == {Num(-1, 1), Num(3, 2), Num(0, 1)}
\* Number.isInteger(x)
IsInteger(x) == x.num % x.den = 0
\* `${x}` for the integers drawn
NumberText(x) ==
  CASE x.num = 0 -> "0" [] x.num = 60 -> "60" [] x.num = 120 -> "120"
    [] x.num = 600 -> "600" [] OTHER -> "-1"
\* a negative integer passes
ValidTimeout_AnyInteger(x) == IsInteger(x)
\* !(!Number.isInteger(x) || x < 0)
ValidTimeout(x) == ~(~IsInteger(x) \/ x.num < 0)
\* the message of the SSHError the timeout checks throw, <<>> if none
ValidateTimeouts(entryCacheTimeout, sudoTimeout) ==
  IF ~ValidTimeout(entryCacheTimeout)
  THEN <<"entryCacheTimeout must be a non-negative integer">>
  ELSE IF ~ValidTimeout(sudoTimeout)
  THEN <<"sudoTimeout must be a non-negative integer">>
  ELSE <<>>
\* the command line of updateSSSDTimeout[Multiple]
TimeoutCommand(entryCacheTimeout, sudoTimeout) ==
  <<"sudo sed -i '/^entry_cache_timeout/d' /etc/sssd/sssd.conf && sudo sed -i '/^entry_cache_sudo_timeout/d' /etc/sssd/sssd.conf && sudo sed -i '/\\[domain\\/example\\.com\\]/a entry_cache_timeout = ",
    NumberText(entryCacheTimeout),
    "' /etc/sssd/sssd.conf && sudo sed -i '/\\[domain\\/example\\.com\\]/a entry_cache_sudo_timeout = ",
    NumberText(sudoTimeout),
    "' /etc/sssd/sssd.conf && sudo systemctl restart sssd">>

\* the promise of an SSHManager method: no call, a call awaiting the single
\* executeCommand it returned ("pending"), a call that returned the promise of
\* executeOnMultipleHosts ("batch"), or a settled call
NoSsh == [op |-> "none", pc |-> "idle", args |-> <<>>, command |-> <<>>, out |-> NoOutcome]
SshCall(op, pc, args, command) ==
  [op |-> op, pc |-> pc, args |-> args, command |-> command, out |-> NoOutcome]
\* the method threw before it called executeCommand
SshThrows(op, args, message) ==
  [op |-> op, pc |-> "rejected", args |-> args, command |-> <<>>,
   out |-> Rejected(SSHError(message, NoHost))]

\* a failure entry takes an exit status a remote shell can return
FailedExitCode_One == CHOOSE c \in ExitCodes : c # 0
\* exitCode of a synthesized failure entry
FailedExitCode == -1

\* the entry a batch stores for a host whose executeCommand rejected
FailureEntry_ExitZero(error) == [stdout |-> <<>>, stderr |-> error.message, exitCode |-> 0]
FailureEntry(error) == [stdout |-> <<>>, stderr |-> error.message, exitCode |-> FailedExitCode]

\* the try/catch around the await of executeCommand in the map callback
CatchesRejection_No == FALSE
CatchesRejection == TRUE

\* Promise.all over the map callbacks left out: the batch returns at once
PromiseAll_NotAwaited(states) == "resolved"
\* Promise.all: rejected once one promise is rejected, resolved when all are fulfilled
PromiseAll(states) ==
  IF \E i \in 1..Len(states) : states[i] = "rejected" THEN "rejected"
  ELSE IF \A i \in 1..Len(states) : states[i] = "fulfilled" THEN "resolved"
  ELSE "pending"

\* the invocation takes a connection that is already open and ready
Connecting_Pooled(h) ==
  [host |-> h, pc |-> "exec", ran |-> FALSE, stdout |-> <<>>, stderr |-> <<>>,
   out |-> NoOutcome, callback |-> "pending"]
\* executeCommand(host, command) up to conn.connect(...)
Connecting(h) ==
  [host |-> h, pc |-> "connecting", ran |-> FALSE, stdout |-> <<>>, stderr |-> <<>>,
   out |-> NoOutcome, callback |-> "pending"]

InitFleet ==
  /\ batch = [pc |-> "idle", hosts |-> <<>>]
  /\ exec = <<>>
  /\ results = <<>>
  /\ ssh = NoSsh

Init == InitClient /\ InitFleet /\ calc = NoCalc

\* the entry replaces the Map
MapSet_Only(map, host, entry) == [k \in {host} |-> entry]
\* results.set(host, entry)
MapSet(map, host, entry) ==
  [k \in DOMAIN map \cup {host} |-> IF k = host THEN entry ELSE map[k]]

\* a settled promise never changes again
SettleBatch(states) ==
  IF batch.pc = "pending" THEN [batch EXCEPT !.pc = PromiseAll(states)] ELSE batch

\* the hosts are taken one after the other: only the first connection is
\* opened by the call
ExecuteOnMultipleHosts_FirstOnly(hosts) ==
  /\ exec' = [i \in 1..(IF Len(hosts) > 0 THEN 1 ELSE 0) |-> Connecting(hosts[i])]
  /\ results' = <<>>
  /\ batch' = [pc |-> PromiseAll([i \in 1..Len(hosts) |-> "pending"]), hosts |-> hosts]
\* executeOnMultipleHosts(hosts, command) up to await Promise.all(promises):
\* every host's executeCommand has called conn.connect (the command is that
\* of the calling method, kept in ssh)
ExecuteOnMultipleHosts(hosts) ==
  /\ exec' = [i \in 1..Len(hosts) |-> Connecting(hosts[i])]
  /\ results' = <<>>
  /\ batch' = [pc |-> PromiseAll([i \in 1..Len(hosts) |-> "pending"]), hosts |-> hosts]

\* no SSHManager method is in flight
SshIdle == ssh.pc = "idle" /\ batch.pc = "idle" /\ exec = <<>>

\* updateSSSDTimeout(host, entryCacheTimeout, sudoTimeout) up to its return
UpdateSSSDTimeoutCall(host, entryCacheTimeout, sudoTimeout) ==
  LET args == <<entryCacheTimeout, sudoTimeout>>
      message == ValidateTimeouts(entryCacheTimeout, sudoTimeout)
  IN /\ IF message # <<>>
        THEN /\ ssh' = SshThrows("updateSSSDTimeout", args, message)
             /\ exec' = <<>>
        ELSE /\ ssh' = SshCall("updateSSSDTimeout", "pending", args,
                               TimeoutCommand(entryCacheTimeout, sudoTimeout))
             /\ exec' = <<Connecting(host)>>
     /\ UNCHANGED <<batch, results>>
UpdateSSSDTimeout(host, entryCacheTimeout, sudoTimeout) ==
  /\ SshIdle
  /\ UpdateSSSDTimeoutCall(host, entryCacheTimeout, sudoTimeout)
  /\ UNCHANGED <<rpcVars, calc>>

\* updateSSSDTimeoutMultiple(hosts, entryCacheTimeout, sudoTimeout) up to
\* its return
UpdateSSSDTimeoutMultipleCall(hosts, entryCacheTimeout, sudoTimeout) ==
  LET args == <<entryCacheTimeout, sudoTimeout>>
      message == ValidateTimeouts(entryCacheTimeout, sudoTimeout)
  IN IF message # <<>>
     THEN /\ ssh' = SshThrows("updateSSSDTimeoutMultiple", args, message)
          /\ UNCHANGED <<batch, exec, results>>
     ELSE /\ ssh' = SshCall("updateSSSDTimeoutMultiple", "batch", args,
                            TimeoutCommand(entryCacheTimeout, sudoTimeout))
          /\ ExecuteOnMultipleHosts(hosts)
UpdateSSSDTimeoutMultiple(hosts, entryCacheTimeout, sudoTimeout) ==
  /\ SshIdle
  /\ UpdateSSSDTimeoutMultipleCall(hosts, entryCacheTimeout, sudoTimeout)
  /\ UNCHANGED <<rpcVars, calc>>

\* [stop, rm, start, force ? 'sudo sss_cache -E' : ''].filter(Boolean).join(' && ')
ClearCommand(force) ==
  <<"sudo systemctl stop sssd", " && ", "sudo rm -rf /var/lib/sss/db/*", " && ",
    "sudo systemctl start sssd">>
    \o (IF force THEN <<" && ", "sudo sss_cache -E">> ELSE <<>>)
\* clearSSSDCacheMultiple(hosts, force) up to its return
ClearSSSDCacheMultipleCall(hosts, force) ==
  /\ ssh' = SshCall("clearSSSDCacheMultiple", "batch", <<force>>, ClearCommand(force))
  /\ ExecuteOnMultipleHosts(hosts)

\* invalidateUser / invalidateGroup (host, identifier) up to its return
InvalidateCall(op, flag, name, host, identifier) ==
  LET message == ValidateShellSafe(identifier, name)
  IN /\ IF message # <<>>
        THEN /\ ssh' = SshThrows(op, identifier, message)
             /\ exec' = <<>>
        ELSE /\ ssh' = SshCall(op, "pending", identifier,
                               <<"sudo sss_cache ", flag, " ">> \o identifier)
             /\ exec' = <<Connecting(host)>>
     /\ UNCHANGED <<batch, results>>
InvalidateUserCall(host, username) ==
  InvalidateCall("invalidateUser", "-u", "username", host, username)
InvalidateUser(host, username) ==
  SshIdle /\ InvalidateUserCall(host, username) /\ UNCHANGED <<rpcVars, calc>>
InvalidateGroup(host, groupname) ==
  /\ SshIdle
  /\ InvalidateCall("invalidateGroup", "-g", "groupname", host, groupname)
  /\ UNCHANGED <<rpcVars, calc>>

\* the command of the connectivity test
EchoCommand == <<"echo \"test\"">>

\* the exit status alone decides
IsConnected_ExitOnly(out) == out.ok /\ out.value.exitCode = 0
\* testConnectivity from the settling of its executeCommand on: the value
\* it returns, false from its catch clause
IsConnected(out) ==
  out.ok /\ out.value.exitCode = 0 /\ Trim(out.value.stdout) = <<"test">>

\* testConnectivity(host) up to the await of executeCommand
TestConnectivityCall(host) ==
  /\ ssh' = SshCall("testConnectivity", "pending", <<host>>, EchoCommand)
  /\ exec' = <<Connecting(host)>>
  /\ UNCHANGED <<batch, results>>
TestConnectivity(host) ==
  SshIdle /\ TestConnectivityCall(host) /\ UNCHANGED <<rpcVars, calc>>

\* testConnectivityMultiple(hosts) up to await Promise.all(promises): every
\* host's testConnectivity awaits its executeCommand
TestConnectivityMultipleCall(hosts) ==
  /\ ssh' = [SshCall("testConnectivityMultiple",
                     PromiseAll([i \in 1..Len(hosts) |-> "pending"]), hosts, EchoCommand)
               EXCEPT !.out = IF Len(hosts) = 0 THEN Resolved("results") ELSE NoOutcome]
  /\ exec' = [i \in 1..Len(hosts) |-> Connecting(hosts[i])]
  /\ results' = <<>>
  /\ UNCHANGED batch
TestConnectivityMultiple(hosts) ==
  SshIdle /\ TestConnectivityMultipleCall(hosts) /\ UNCHANGED <<rpcVars, calc>>

\* conn.on('ready'): conn.exec(command, callback)
ConnReady(i) ==
  /\ exec[i].pc = "connecting"
  /\ exec' = [exec EXCEPT ![i].pc = "exec"]
  /\ UNCHANGED <<rpcVars, calc, batch, results, ssh>>

\* the exec callback without err: the stream handlers are installed
StreamOpen(i) ==
  /\ exec[i].pc = "exec"
  /\ exec' = [exec EXCEPT ![i].pc = "running", ![i].ran = TRUE]
  /\ UNCHANGED <<rpcVars, calc, batch, results, ssh>>

\* stream.on('data') and stream.stderr.on('data')
StreamData(i) ==
  /\ exec[i].pc = "running"
  /\ Len(exec[i].stdout) + Len(exec[i].stderr) < MaxChunks
  /\ \E c \in Chunks :
       \/ exec' = [exec EXCEPT ![i].stdout = Append(@, c)]
       \/ exec' = [exec EXCEPT ![i].stderr = Append(@, c)]
  /\ UNCHANGED <<rpcVars, calc, batch, results, ssh>>

\* the executeCommand promise of position i settles with out (the stdout
\* and stderr buffers of the closure are not read again).  In a batch the map
\* callback resumes after its await, and Promise.all sees the callback
\* settle; otherwise the promise is the one the single-host method returned.
\* testConnectivity awaits it inside its own try/catch and returns a boolean
HostSettles(i, out) ==
  LET cb == IF out.ok \/ CatchesRejection THEN "fulfilled" ELSE "rejected"
      settled == [Connecting(exec[i].host) EXCEPT
                    !.pc = "settled", !.ran = exec[i].ran, !.out = out]
      ex == [exec EXCEPT ![i] = [settled EXCEPT !.callback = cb]]
      tested == [exec EXCEPT ![i] = [settled EXCEPT !.callback = "fulfilled"]]
      all == PromiseAll([j \in 1..Len(tested) |-> tested[j].callback])
  IN IF ssh.op = "testConnectivity"
     THEN /\ exec' = [exec EXCEPT ![i] = settled]
          /\ ssh' = [ssh EXCEPT !.pc = "resolved", !.out = Resolved(IsConnected(out))]
          /\ UNCHANGED <<batch, results>>
     ELSE IF ssh.op = "testConnectivityMultiple"
     THEN /\ exec' = tested
          /\ results' = MapSet(results, exec[i].host, IsConnected(out))
          /\ ssh' = [ssh EXCEPT !.pc = all,
                                !.out = IF all = "resolved" THEN Resolved("results")
                                        ELSE NoOutcome]
          /\ batch' = batch
     ELSE IF ssh.pc = "pending"
     THEN /\ exec' = [exec EXCEPT ![i] = settled]
          /\ ssh' = [ssh EXCEPT !.pc = IF out.ok THEN "resolved" ELSE "rejected",
                                !.out = out]
          /\ UNCHANGED <<batch, results>>
     ELSE /\ exec' = ex
          /\ results' = IF out.ok THEN MapSet(results, exec[i].host, out.value)
                        ELSE IF CatchesRejection
                             THEN MapSet(results, exec[i].host, FailureEntry(out.error))
                             ELSE results
          /\ batch' = SettleBatch([j \in 1..Len(ex) |-> ex[j].callback])
          /\ ssh' = ssh

\* stream.on('close', code): conn.end(); resolve({stdout, stderr, exitCode})
StreamClose(i) ==
  /\ exec[i].pc = "running"
  /\ \E code \in ExitCodes :
       HostSettles(i, Resolved([stdout |-> Trim(exec[i].stdout),
                                stderr |-> Trim(exec[i].stderr),
                                exitCode |-> code]))
  /\ UNCHANGED <<rpcVars, calc>>

\* the exec callback with err: conn.end(); reject(...)
ExecFails(i) ==
  /\ exec[i].pc = "exec"
  /\ \E m \in ExecErrors :
       HostSettles(i, Rejected(SSHError(<<"Failed to execute command: ">> \o m, exec[i].host)))
  /\ UNCHANGED <<rpcVars, calc>>

\* conn.on('error') while the promise is pending: reject(...)
ConnError(i) ==
  /\ exec[i].pc \in {"connecting", "exec", "running"}
  /\ \E m \in ConnErrors :
       HostSettles(i, Rejected(SSHError(<<"SSH connection failed: ">> \o m, exec[i].host)))
  /\ UNCHANGED <<rpcVars, calc>>

\* the caller receives the batch's promise
BatchReturn ==
  /\ batch.pc \in {"resolved", "rejected"}
  /\ \A i \in 1..Len(exec) : exec[i].pc = "settled"
  /\ batch' = [pc |-> "idle", hosts |-> <<>>]
  /\ exec' = <<>>
  /\ results' = <<>>
  /\ ssh' = NoSsh
  /\ UNCHANGED <<rpcVars, calc>>

\* the caller receives the promise of a single-host method or of
\* testConnectivityMultiple
SshReturn ==
  /\ ssh.pc \in {"resolved", "rejected"}
  /\ ssh' = NoSsh
  /\ exec' = <<>>
  /\ results' = <<>>
  /\ UNCHANGED <<rpcVars, calc, batch>>

FleetNext ==
  \/ \E host \in Hostnames, e \in Timeouts, s \in Timeouts : UpdateSSSDTimeout(host, e, s)
  \/ \E hosts \in HostLists, e \in Timeouts, s \in Timeouts :
        UpdateSSSDTimeoutMultiple(hosts, e, s)
  \/ \E host \in Hostnames, username \in Identifiers : InvalidateUser(host, username)
  \/ \E host \in Hostnames, groupname \in Identifiers : InvalidateGroup(host, groupname)
  \/ SshReturn
  \/ \E i \in 1..Len(exec) : ConnReady(i)
  \/ \E i \in 1..Len(exec) : StreamOpen(i)
  \/ \E i \in 1..Len(exec) : StreamData(i)
  \/ \E i \in 1..Len(exec) : StreamClose(i)
  \/ \E i \in 1..Len(exec) : ExecFails(i)
  \/ \E i \in 1..Len(exec) : ConnError(i)
  \/ BatchReturn

FleetSpec == Init /\ [][FleetNext]_vars

\* the connectivity tests of SSHManager
ConnectivityNext ==
  \/ \E host \in Hostnames : TestConnectivity(host)
  \/ \E hosts \in HostLists : TestConnectivityMultiple(hosts)
  \/ SshReturn
  \/ \E i \in 1..Len(exec) : ConnReady(i)
  \/ \E i \in 1..Len(exec) : StreamOpen(i)
  \/ \E i \in 1..Len(exec) : StreamData(i)
  \/ \E i \in 1..Len(exec) : StreamClose(i)
  \/ \E i \in 1..Len(exec) : ExecFails(i)
  \/ \E i \in 1..Len(exec) : ConnError(i)

ConnectivitySpec == Init /\ [][ConnectivityNext]_vars

(* ------------------------ the tool-call handler ------------------------ *)
\* tool names, cut after the prefix the handler tests
UserShowTool == <<"freeipa_", "user_show">>
PingTool == <<"freeipa_", "ping">>
TestSshTool == <<"freeipa_", "test_ssh_connectivity">>
UpdateTimeoutTool == <<"freeipa_", "update_sssd_timeout">>
InvalidateUserTool == <<"freeipa_", "invalidate_user_cache">>
ClearCacheTool == <<"freeipa_", "clear_sssd_cache">>
\* a name no case of the switch has
SessionInfoTool == <<"freeipa_", "session", "_info">>
ToolNames == {UserShowTool, <<"freeipa_", "whoami">>, <<"list_users">>}

\* the exception for the connectivity test is left out
NeedsAuthentication_Prefix(name) == name # <<>> /\ name[1] = "freeipa_"
\* ensureAuthenticated is awaited for every tool
NeedsAuthentication_Always(name) == TRUE
\* name.startsWith('freeipa_') && name !== 'freeipa_test_ssh_connectivity'
NeedsAuthentication(name) ==
  name # <<>> /\ name[1] = "freeipa_" /\ name # TestSshTool

\* new Error(message)
PlainError(message) == [name |-> "Error", message |-> message, code |-> NoCode]

\* the characters of a hostname
Characters(h) ==
  CASE h = "h1" -> <<"h", "1">> [] h = "h2" -> <<"h", "2">> [] h = "h@2" -> <<"h", "@", "2">>
\* SAFE_HOSTNAME = /^[a-zA-Z0-9._-]+$/
MatchesHostname(h) ==
  /\ Len(Characters(h)) > 0
  /\ \A i \in 1..Len(Characters(h)) :
       Characters(h)[i] \in Letters \cup Digits \cup {".", "_", "-"}
\* SAFE_IDENTIFIER = /^[a-zA-Z0-9._@-]+$/
MatchesIdentifier(value) ==
  /\ Len(value) > 0
  /\ \A i \in 1..Len(value) : value[i] \in Letters \cup Digits \cup {".", "_", "@", "-"}
\* only the first element is tested
ValidateHostnames_FirstOnly(value, name) ==
  IF ~value.array \/ Len(value.items) = 0 THEN <<name, " must be a non-empty array">>
  ELSE IF ~MatchesHostname(value.items[1])
  THEN <<name, " contains invalid hostname: ", value.items[1]>>
  ELSE <<>>
\* validateHostnames(value, name): the message of the Error it throws, <<>> if none
ValidateHostnames(value, name) ==
  IF ~value.array \/ Len(value.items) = 0 THEN <<name, " must be a non-empty array">>
  ELSE IF \E i \in 1..Len(value.items) : ~MatchesHostname(value.items[i])
  THEN LET bad == CHOOSE i \in 1..Len(value.items) :
                    /\ ~MatchesHostname(value.items[i])
                    /\ \A j \in 1..(i - 1) : MatchesHostname(value.items[j])
       IN <<name, " contains invalid hostname: ", value.items[bad]>>
  ELSE <<>>
\* validateIdentifier(value, name): the message of the Error it throws, <<>> if none
ValidateIdentifier(value, name) ==
  IF value = <<>> THEN <<name, " is required">>
  ELSE IF ~MatchesIdentifier(value) THEN <<name, " contains invalid characters">>
  ELSE <<>>

\* params.hosts: absent, or an array of hostnames
HostsArgs ==
  { [array |-> FALSE, items |-> <<>>], [array |-> TRUE, items |-> <<>>],
    [array |-> TRUE, items |-> <<"h1">>], [array |-> TRUE, items |-> <<"h1", "h2">>],
    [array |-> TRUE, items |-> <<"h1", "h1">>],
    [array |-> TRUE, items |-> <<"h1", "h@2">>] }
\* params.force || false
ForceArgs == {FALSE, TRUE}
\* params.username
UsernameArgs == {<<>>, <<"a">>, <<"a", ";">>}
\* params.mode
Modes == {"testing", "production"}
\* config.sssd.testing and config.sssd.production: the defaults, and a
\* production.entryCacheTimeout of -1 that config.yaml sets (mergeConfig
\* copies the sssd sections unchecked)
ConfiguredTimeouts(mode) ==
  IF mode = "testing" THEN <<Num(60, 1), Num(120, 1)>> ELSE <<Num(-1, 1), Num(600, 1)>>

\* the tool calls: a name and its arguments
ToolCalls == {[name |-> n, args |-> NoArgs] : n \in ToolNames}
SshToolCalls ==
  {[name |-> UpdateTimeoutTool, args |-> [NoArgs EXCEPT !.hosts = h, !.mode = m]] :
     h \in HostsArgs, m \in Modes}
  \cup
  {[name |-> InvalidateUserTool, args |-> [NoArgs EXCEPT !.hosts = h, !.username = u]] :
     h \in HostsArgs, u \in UsernameArgs}
  \cup
  {[name |-> ClearCacheTool, args |-> [NoArgs EXCEPT !.hosts = h, !.force = f]] :
     h \in HostsArgs, f \in ForceArgs}
  \cup
  {[name |-> TestSshTool, args |-> [NoArgs EXCEPT !.hosts = h]] : h \in HostsArgs}

\* the catch clause never resets the flag
SessionExpired_Never(error) == FALSE
\* error.code === 401 || error.message?.includes('Unauthorized')
\*   || error.message?.includes('session')
SessionExpired(error) ==
  \/ error.code = 401
  \/ Includes(error.message, "Unauthorized")
  \/ Includes(error.message, "session")

\* the catch clause returns the text without the isError mark
ErrorResult_Unmarked(error) ==
  [isError |-> FALSE, text |-> <<"Error: ">> \o error.message,
   summary |-> <<>>, totalHosts |-> 0]
\* the handler's return value from its catch clause
ErrorResult(error) ==
  [isError |-> TRUE, text |-> <<"Error: ">> \o error.message,
   summary |-> <<>>, totalHosts |-> 0]
\* the handler's return value after the switch: JSON.stringify(result)
TextResult(name, payload) ==
  [isError |-> FALSE, text |-> name \o <<payload>>, summary |-> <<>>, totalHosts |-> 0]
\* the same for the tools that report per host: the summary entries by
\* host (their order, that of insertion in the Map, is not kept) and totalHosts
HostsResult(name, summary, totalHosts) ==
  [isError |-> FALSE, text |-> name, summary |-> summary, totalHosts |-> totalHosts]

\* res.stderr || res.stdout
StderrOrStdout(res) == IF res.stderr # <<>> THEN res.stderr ELSE res.stdout
\* the summary entry of freeipa_update_sssd_timeout for one host
TimeoutEntry(res, mode) ==
  [success |-> res.exitCode = 0, mode |-> mode,
   message |-> IF res.exitCode = 0 THEN <<"Timeouts updated successfully">>
               ELSE StderrOrStdout(res)]
\* the summary entry of freeipa_clear_sssd_cache for one host
ClearEntry(res) ==
  [success |-> res.exitCode = 0,
   message |-> IF res.exitCode = 0 THEN <<"Cache cleared successfully">>
               ELSE StderrOrStdout(res)]
\* the summary entry of freeipa_test_ssh_connectivity for one host
ConnectedEntry(connected) ==
  [connected |-> connected,
   message |-> IF connected THEN <<"SSH connection successful">>
               ELSE <<"SSH connection failed">>]
\* the entry freeipa_invalidate_user_cache sets for one host
InvalidateEntry(out, username) ==
  IF out.ok
  THEN [success |-> out.value.exitCode = 0,
        message |-> IF out.value.exitCode = 0
                    THEN <<"Cache invalidated for ">> \o username
                    ELSE StderrOrStdout(out.value)]
  ELSE [success |-> FALSE, message |-> out.error.message]

\* the switch on the tool name, up to the first await: the method called and
\* what it is called with, or the error thrown
ToolBody(name, args, clientFlag) ==
  IF name \in {UserShowTool, PingTool}
  THEN IF MustLogin(clientFlag)
       THEN [kind |-> "throw", error |-> NotAuthenticated]
       ELSE [kind |-> "send",
             call |-> IF name = UserShowTool
                      THEN [method |-> "user_show", params |-> <<"alice">>, options |-> {}]
                      ELSE [method |-> "ping", params |-> <<>>, options |-> {}]]
  ELSE IF name = UpdateTimeoutTool
  THEN IF ValidateHostnames(args.hosts, "hosts") # <<>>
       THEN [kind |-> "throw", error |-> PlainError(ValidateHostnames(args.hosts, "hosts"))]
       ELSE [kind |-> "batch"]
  ELSE IF name = InvalidateUserTool
  THEN IF ValidateHostnames(args.hosts, "hosts") # <<>>
       THEN [kind |-> "throw", error |-> PlainError(ValidateHostnames(args.hosts, "hosts"))]
       ELSE IF ValidateIdentifier(args.username, "username") # <<>>
       THEN [kind |-> "throw",
             error |-> PlainError(ValidateIdentifier(args.username, "username"))]
       ELSE [kind |-> "loop"]
  ELSE IF name \in {ClearCacheTool, TestSshTool}
  THEN IF ValidateHostnames(args.hosts, "hosts") # <<>>
       THEN [kind |-> "throw", error |-> PlainError(ValidateHostnames(args.hosts, "hosts"))]
       ELSE [kind |-> IF name = ClearCacheTool THEN "clear" ELSE "test"]
  ELSE [kind |-> "throw", error |-> PlainError(<<"Unknown tool: ">> \o name)]

\* the catch clause of the handler, entered with error while the
\* dispatcher's flag is flag
Caught(t, name, error, flag, at, reply) ==
  /\ isAuthenticated' = IF SessionExpired(error) THEN FALSE ELSE flag
  /\ loginCalled' = IF SessionExpired(error) THEN FALSE ELSE loginCalled
  /\ last' = Settled(t, "tool", name, at, reply, Rejected(error), ErrorResult(error))
  /\ task' = [task EXCEPT ![t] = Idle]

\* the tool call of slot t waits on SSHManager, at position k of its hosts
AwaitSsh(t, name, args, k, map) ==
  task' = [task EXCEPT ![t] = [Idle EXCEPT !.op = "tool", !.pc = "ssh_wait", !.tool = name,
                                           !.args = args, !.k = k, !.map = map]]

\* the handler from the end of ensureAuthenticated to its next await or its
\* return; clientFlag and flag are the two flags at that point
\* (the SSH tools are called one at a time: SSHManager holds one call).
\* When it runs on from a login reply, the authenticate() promise is the one
\* that settled last
Proceed(t, name, args, clientFlag, flag, at, reply) ==
  LET b == ToolBody(name, args, clientFlag)
      settled == IF at = "login"
                 THEN Settled(t, "authenticate", name, at, reply, Resolved("true"),
                              NoToolResult)
                 ELSE last
  IN
  CASE b.kind = "send" ->
         /\ isAuthenticated' = flag /\ loginCalled' = loginCalled
         /\ requestId' = NextRequestId(requestId)
         /\ sent' = Append(sent, NextRequestId(requestId))
         /\ task' = [task EXCEPT ![t] = [Idle EXCEPT !.op = "tool", !.pc = "rpc_wait",
                                          !.tool = name, !.req = ApiRequest(b.call)]]
         /\ last' = settled
         /\ UNCHANGED fleetVars
    [] b.kind = "throw" ->
         /\ Caught(t, name, b.error, flag, at, reply)
         /\ UNCHANGED <<requestId, sent, fleetVars>>
    [] b.kind = "batch" ->
         /\ SshIdle
         /\ isAuthenticated' = flag /\ loginCalled' = loginCalled
         /\ AwaitSsh(t, name, args, 0, <<>>)
         /\ UpdateSSSDTimeoutMultipleCall(args.hosts.items, ConfiguredTimeouts(args.mode)[1],
                                          ConfiguredTimeouts(args.mode)[2])
         /\ last' = settled
         /\ UNCHANGED <<requestId, sent>>
    [] b.kind = "loop" ->
         /\ SshIdle
         /\ isAuthenticated' = flag /\ loginCalled' = loginCalled
         /\ AwaitSsh(t, name, args, 1, <<>>)
         /\ InvalidateUserCall(args.hosts.items[1], args.username)
         /\ last' = settled
         /\ UNCHANGED <<requestId, sent>>
    [] b.kind = "clear" ->
         /\ SshIdle
         /\ isAuthenticated' = flag /\ loginCalled' = loginCalled
         /\ AwaitSsh(t, name, args, 0, <<>>)
         /\ ClearSSSDCacheMultipleCall(args.hosts.items, args.force)
         /\ last' = settled
         /\ UNCHANGED <<requestId, sent>>
    [] b.kind = "test" ->
         /\ SshIdle
         /\ isAuthenticated' = flag /\ loginCalled' = loginCalled
         /\ AwaitSsh(t, name, args, 0, <<>>)
         /\ TestConnectivityMultipleCall(args.hosts.items)
         /\ last' = settled
         /\ UNCHANGED <<requestId, sent>>

\* requests the tool calls in flight may still send
MaySend == Cardinality({t \in Tasks : task[t].pc = "login_wait"})

\* ensureAuthenticated posts no login while another one is in flight: the
\* call goes on to the switch
ToolStartOf_SingleFlight(t, calls) ==
  /\ task[t].pc = "idle"
  /\ requestId + MaySend < MaxRequests
  /\ \E c \in calls :
       IF NeedsAuthentication(c.name) /\ ~isAuthenticated /\ MaySend = 0
       THEN /\ task' = [task EXCEPT ![t] = [Idle EXCEPT !.op = "tool", !.pc = "login_wait",
                                                         !.tool = c.name, !.args = c.args]]
            /\ loginCalled' = TRUE
            /\ UNCHANGED <<requestId, sent, last, isAuthenticated, fleetVars>>
       ELSE Proceed(t, c.name, c.args, authenticated, isAuthenticated, "start", NoReply)
  /\ UNCHANGED <<authenticated, cookies, calc>>
\* the handler up to its first await, for a call among calls:
\* ensureAuthenticated posts a login when the flag is false, otherwise the
\* switch runs
ToolStartOf(t, calls) ==
  /\ task[t].pc = "idle"
  /\ requestId + MaySend < MaxRequests
  /\ \E c \in calls :
       IF NeedsAuthentication(c.name) /\ ~isAuthenticated
       THEN /\ task' = [task EXCEPT ![t] = [Idle EXCEPT !.op = "tool", !.pc = "login_wait",
                                                         !.tool = c.name, !.args = c.args]]
            /\ loginCalled' = TRUE
            /\ UNCHANGED <<requestId, sent, last, isAuthenticated, fleetVars>>
       ELSE Proceed(t, c.name, c.args, authenticated, isAuthenticated, "start", NoReply)
  /\ UNCHANGED <<authenticated, cookies, calc>>

\* a call of one of the directory tools, at any time
ToolStart(t) == ToolStartOf(t, ToolCalls)

\* the rejection of authenticate() is swallowed: the switch runs all the same
ToolLoginSettle_Proceeds(t) ==
  /\ task[t].op = "tool" /\ task[t].pc = "login_wait"
  /\ \E reply \in LoginReplies :
       LET r == AuthenticateResult(reply) IN
       /\ authenticated' = r.authenticated
       /\ cookies' = r.cookies
       /\ Proceed(t, task[t].tool, task[t].args, r.authenticated,
                  IF r.out.ok THEN TRUE ELSE isAuthenticated, "login", reply)
  /\ UNCHANGED calc
\* the handler from the login reply on: ensureAuthenticated sets the flag
\* after a successful authenticate(), then the switch runs
ToolLoginSettle(t) ==
  /\ task[t].op = "tool" /\ task[t].pc = "login_wait"
  /\ \E reply \in LoginReplies :
       LET r == AuthenticateResult(reply) IN
       /\ authenticated' = r.authenticated
       /\ cookies' = r.cookies
       /\ IF r.out.ok
          THEN Proceed(t, task[t].tool, task[t].args, r.authenticated, TRUE, "login", reply)
          ELSE /\ Caught(t, task[t].tool, r.out.error, isAuthenticated, "login", reply)
               /\ UNCHANGED <<requestId, sent, fleetVars>>
  /\ UNCHANGED calc

\* the handler from the RPC reply on: the result is returned, or the catch
\* clause runs
ToolRpcSettle(t) ==
  /\ task[t].op = "tool" /\ task[t].pc = "rpc_wait"
  /\ \E reply \in RpcReplies :
       LET out == ApiCallResult(reply) IN
       IF out.ok
       THEN /\ last' = Settled(t, "tool", task[t].tool, "rpc", reply, out,
                               TextResult(task[t].tool, out.value))
            /\ task' = [task EXCEPT ![t] = Idle]
            /\ UNCHANGED <<isAuthenticated, loginCalled>>
       ELSE Caught(t, task[t].tool, out.error, isAuthenticated, "rpc", reply)
  /\ UNCHANGED <<clientVars, fleetVars, calc>>

\* the promise the handler awaits from SSHManager has settled
SshSettled ==
  \/ ssh.pc \in {"resolved", "rejected"}
  \/ /\ ssh.pc = "batch" /\ batch.pc \in {"resolved", "rejected"}
     /\ \A i \in 1..Len(exec) : exec[i].pc = "settled"

\* nothing of the SSHManager call is left
FleetDone ==
  /\ batch' = [pc |-> "idle", hosts |-> <<>>]
  /\ exec' = <<>>
  /\ results' = <<>>
  /\ ssh' = NoSsh

\* the handler returns the per-host result of an SSH tool
ReturnHosts(t, summary) ==
  /\ last' = Settled(t, "tool", task[t].tool, "ssh", NoReply, Resolved("results"),
                     HostsResult(task[t].tool, summary, Len(task[t].args.hosts.items)))
  /\ task' = [task EXCEPT ![t] = Idle]
  /\ UNCHANGED <<isAuthenticated, loginCalled>>

\* freeipa_update_sssd_timeout from the settling of updateSSSDTimeoutMultiple on
UpdateTimeoutSettle(t) ==
  /\ IF ssh.pc = "rejected"
     THEN Caught(t, task[t].tool, ssh.out.error, isAuthenticated, "ssh", NoReply)
     ELSE IF batch.pc = "rejected"
     THEN \E i \in 1..Len(exec) :
            /\ exec[i].callback = "rejected"
            /\ Caught(t, task[t].tool, exec[i].out.error, isAuthenticated, "ssh", NoReply)
     ELSE ReturnHosts(t, [h \in DOMAIN results |-> TimeoutEntry(results[h], task[t].args.mode)])
  /\ FleetDone

\* the loop ends at the first host whose command rejects
InvalidateUserSettle_StopsAtFailure(t) ==
  LET hosts == task[t].args.hosts.items
      k == task[t].k
      map == MapSet(task[t].map, hosts[k], InvalidateEntry(ssh.out, task[t].args.username))
  IN IF k < Len(hosts) /\ ssh.out.ok
     THEN /\ AwaitSsh(t, task[t].tool, task[t].args, k + 1, map)
          /\ InvalidateUserCall(hosts[k + 1], task[t].args.username)
          /\ UNCHANGED <<last, isAuthenticated, loginCalled>>
     ELSE /\ ReturnHosts(t, map)
          /\ FleetDone
\* freeipa_invalidate_user_cache from the settling of invalidateUser for the
\* host at position k on: the entry of that host is set, then the next
\* host's invalidateUser is called, or the result is returned
InvalidateUserSettle(t) ==
  LET hosts == task[t].args.hosts.items
      k == task[t].k
      map == MapSet(task[t].map, hosts[k], InvalidateEntry(ssh.out, task[t].args.username))
  IN IF k < Len(hosts)
     THEN /\ AwaitSsh(t, task[t].tool, task[t].args, k + 1, map)
          /\ InvalidateUserCall(hosts[k + 1], task[t].args.username)
          /\ UNCHANGED <<last, isAuthenticated, loginCalled>>
     ELSE /\ ReturnHosts(t, map)
          /\ FleetDone

\* freeipa_clear_sssd_cache from the settling of clearSSSDCacheMultiple on
ClearCacheSettle(t) ==
  /\ IF batch.pc = "rejected"
     THEN \E i \in 1..Len(exec) :
            /\ exec[i].callback = "rejected"
            /\ Caught(t, task[t].tool, exec[i].out.error, isAuthenticated, "ssh", NoReply)
     ELSE ReturnHosts(t, [h \in DOMAIN results |-> ClearEntry(results[h])])
  /\ FleetDone

\* freeipa_test_ssh_connectivity from the settling of testConnectivityMultiple on
TestSshSettle(t) ==
  /\ ReturnHosts(t, [h \in DOMAIN results |-> ConnectedEntry(results[h])])
  /\ FleetDone

\* the handler of an SSH tool from the settling of the SSHManager promise on
ToolSshSettle(t) ==
  /\ task[t].op = "tool" /\ task[t].pc = "ssh_wait"
  /\ SshSettled
  /\ CASE task[t].tool = UpdateTimeoutTool -> UpdateTimeoutSettle(t)
       [] task[t].tool = InvalidateUserTool -> InvalidateUserSettle(t)
       [] task[t].tool = ClearCacheTool -> ClearCacheSettle(t)
       [] task[t].tool = TestSshTool -> TestSshSettle(t)
  /\ UNCHANGED <<clientVars, calc>>

DispatchNext ==
  \E t \in Tasks :
    \/ ToolStart(t)
    \/ ToolLoginSettle(t)
    \/ ToolRpcSettle(t)

DispatchSpec == Init /\ [][DispatchNext]_vars

\* the tool-calling host issues one call at a time: a call of any tool, once
\* the result of the previous call has been taken (no two calls being in
\* flight together, all of them take the first slot)
HandlerStart(t) ==
  /\ t = 1
  /\ \A u \in Tasks : task[u].pc = "idle"
  /\ last = NoSettled
  /\ ToolStartOf(t, ToolCalls \cup SshToolCalls
                      \cup {[name |-> n, args |-> NoArgs] : n \in {PingTool, SessionInfoTool}})

\* the tool-calling host receives the result of its call
ResultTaken ==
  /\ \A u \in Tasks : task[u].pc = "idle"
  /\ last # NoSettled
  /\ last' = NoSettled
  /\ UNCHANGED <<clientVars, task, isAuthenticated, loginCalled, fleetVars, calc>>

HandlerNext ==
  \/ \E t \in Tasks : HandlerStart(t)
  \/ \E t \in Tasks : ToolLoginSettle(t)
  \/ \E t \in Tasks : ToolRpcSettle(t)
  \/ \E t \in Tasks : ToolSshSettle(t)
  \/ \E i \in 1..Len(exec) : ConnReady(i)
  \/ \E i \in 1..Len(exec) : StreamOpen(i)
  \/ \E i \in 1..Len(exec) : StreamData(i)
  \/ \E i \in 1..Len(exec) : StreamClose(i)
  \/ \E i \in 1..Len(exec) : ExecFails(i)
  \/ \E i \in 1..Len(exec) : ConnError(i)
  \/ ResultTaken

HandlerSpec == Init /\ [][HandlerNext]_vars

Next ==
  \E t \in Tasks :
    \/ AuthenticateStart(t)
    \/ AuthenticateSettle(t)
    \/ ApiCallStart(t)
    \/ ApiCallSettle(t)

Spec == Init /\ [][Next]_vars

(* ------------------- the pure functions, applied ------------------------ *)
\* loadConfig() on a config.yaml and an environment, and beside it the same
\* load on a config.yaml that differs in its password fields only
ConfigInit ==
  /\ InitClient /\ InitFleet
  /\ \E y \in YamlConfigs, e \in Environments, f \in PasswordFields, g \in PasswordFields :
       calc = [fn |-> "loadConfig", pc |-> "start", yaml |-> y,
               other |-> OtherPasswords(y, f, g), env |-> e,
               config |-> DefaultConfig, otherConfig |-> DefaultConfig]

LoadConfig ==
  /\ calc.fn = "loadConfig" /\ calc.pc = "start"
  /\ calc' = [calc EXCEPT !.pc = "done",
                          !.config = MergeConfig(calc.yaml, calc.env),
                          !.otherConfig = MergeConfig(calc.other, calc.env)]
  /\ UNCHANGED <<rpcVars, fleetVars>>

ConfigNext == LoadConfig
ConfigSpec == ConfigInit /\ [][ConfigNext]_vars

\* an add-member method called with drawn arguments, or a
\* delete/enable/disable method called on a client that is authenticated or
\* not, with the reply its request gets
TypedInit ==
  /\ InitClient /\ InitFleet
  /\ \/ \E m \in AddMemberMethods :
          \E args \in [1..Len(m.keys) -> MemberArgs], options \in OptionBags(m) :
            calc = [fn |-> m.name, pc |-> "start", cn |-> "eng", args |-> args,
                    options |-> options, sentParams |-> <<>>]
     \/ \E m \in BooleanMethods, flag \in BOOLEAN, reply \in RpcReplies :
          calc = [fn |-> m.name, pc |-> "start", authenticated |-> flag,
                  reply |-> reply, out |-> NoOutcome]

\* the method up to the request payload apiCall builds from its triple
CallAddMember ==
  /\ calc.fn \in {m.name : m \in AddMemberMethods} /\ calc.pc = "start"
  /\ \E m \in AddMemberMethods :
       /\ m.name = calc.fn
       /\ LET c == AddMemberCall(m, calc.cn, calc.args, calc.options) IN
          calc' = [calc EXCEPT !.pc = "done",
                               !.sentParams = ApiParams(c.params, c.options)]
  /\ UNCHANGED <<rpcVars, fleetVars>>

\* a delete/enable/disable method from its call to its return or throw
CallBooleanMethod ==
  /\ calc.fn \in {m.name : m \in BooleanMethods} /\ calc.pc = "start"
  /\ calc' = [calc EXCEPT
                !.pc = "done",
                !.out = BooleanMethodResult(ApiCallOutcome(calc.authenticated, calc.reply))]
  /\ UNCHANGED <<rpcVars, fleetVars>>

TypedNext == CallAddMember \/ CallBooleanMethod
TypedSpec == TypedInit /\ [][TypedNext]_vars

(* ======================= properties of the client ====================== *)
CallMade == \E t \in Tasks : ApiCallStart(t)

\* C1: a call() made while no authenticate() has succeeded fails with the
\* not-authenticated error, whatever the method and arguments, and sends
\* nothing; the flag is false until a login succeeds (it is only ever set by
\* a successful authenticate()).
C1_CallBeforeLoginFails ==
  /\ [][(~authenticated /\ CallMade) =>
          /\ last'.op = "call"
          /\ last'.out = Rejected(NotAuthenticated)
          /\ UNCHANGED <<clientVars, task>>]_vars
  /\ [][authenticated' # authenticated =>
          authenticated' /\ last'.op = "authenticate" /\ last'.out.ok]_vars

C1_Witness ==
  /\ ~authenticated
  /\ last.op = "call"
  /\ last.out = Rejected(NotAuthenticated)

\* C7: the ids of the requests sent by one client are 1, 2, 3, ... in send
\* order, and requests in flight at the same time carry different ids.
C7_RequestIdsIncrease ==
  /\ \A i \in 1..Len(sent) : sent[i] = i
  /\ \A t1, t2 \in Tasks :
       (t1 # t2 /\ task[t1].pc = "rpc_wait" /\ task[t2].pc = "rpc_wait")
         => task[t1].req.id # task[t2].req.id

C7_Witness ==
  /\ Len(sent) >= 2
  /\ \E t1, t2 \in Tasks :
       t1 # t2 /\ task[t1].pc = "rpc_wait" /\ task[t2].pc = "rpc_wait"

\* C8: every RPC request carries a params array of exactly two slots,
\* [positionalArgs, namedOptions], also when the positional list is empty.
C8_TwoSlotParams ==
  \A t \in Tasks :
    task[t].pc = "rpc_wait" =>
      /\ Len(task[t].req.params) = 2
      /\ \E c \in CallInputs :
           /\ c.method = task[t].req.method
           /\ task[t].req.params[1] = c.params
           /\ task[t].req.params[2] = c.options

C8_Witness ==
  \E t \in Tasks :
    /\ task[t].pc = "rpc_wait"
    /\ task[t].req.params[1] = <<>>
    /\ task[t].req.params[2] # {}

CarriesFault(e, f) == e.code = f.code /\ e.message = f.message /\ e.name = f.name

\* C9 as stated: whenever the response body contains a fault object, call()
\* fails with an error carrying the fault's code, message and name.
C9_FaultAlwaysSurfaces ==
  (last.op = "call" /\ last.reply.kind = "http" /\ last.reply.body.hasError)
    => /\ ~last.out.ok
       /\ CarriesFault(last.out.error, last.reply.body.error)

\* C9 amended: a call() never yields both; a fault in the body of a 200
\* response or of a non-2xx response makes call() fail with the fault's code
\* and message and the fault's name (the default name FreeIPAError when the
\* fault's name is empty), whether or not the body also has a result; a 2xx
\* response other than 200 fails with the HTTP-status error whatever its body.
C9_FaultSurfaces ==
  last.op = "call" /\ last.reply.kind = "http" =>
    /\ (last.reply.body.hasError /\ (last.reply.status = 200 \/ ~ValidateStatus(last.reply.status)))
         => /\ ~last.out.ok
            /\ last.out.error.code = last.reply.body.error.code
            /\ last.out.error.message = last.reply.body.error.message
            /\ last.out.error.name =
                 (IF last.reply.body.error.name # "" THEN last.reply.body.error.name
                  ELSE "FreeIPAError")
    /\ (ValidateStatus(last.reply.status) /\ last.reply.status # 200)
         => /\ ~last.out.ok
            /\ last.out.error.message = <<"API call failed: HTTP ", StatusText(last.reply.status)>>
    /\ last.out.ok => (~last.reply.body.hasError /\ last.out.value = last.reply.body.payload)

C9_Witness ==
  /\ last.op = "call" /\ last.reply.kind = "http" /\ last.reply.status = 200
  /\ last.reply.body.hasError /\ last.reply.body.hasResult
  /\ ~last.out.ok /\ last.out.error.code = 4001 /\ last.out.error.name = "DuplicateEntry"

\* C10 as stated: authenticate() succeeds (and sets the flag) only on HTTP
\* 200; every other status fails with the authentication error carrying the
\* status, a transport failure with the network error.
C10_NonOkStatusIsAuthenticationError ==
  last.op = "authenticate" =>
    /\ last.out.ok => (last.reply.kind = "http" /\ last.reply.status = 200 /\ authenticated)
    /\ (last.reply.kind = "http" /\ last.reply.status # 200)
         => last.out = Rejected(FreeIPAError(
                         <<"Authentication failed: HTTP ", StatusText(last.reply.status)>>,
                         NoCode, NoName))
    /\ last.reply.kind = "transport"
         => last.out = Rejected(FreeIPAError(
                         <<"Network error during authentication: ">> \o last.reply.message,
                         NoCode, NoName))
\* the step in which the authenticate() of slot t gets its login reply
LoginSettles(t) ==
  /\ task[t].op = "authenticate" /\ task[t].pc = "login_wait"
  /\ last' # last /\ last'.task = t /\ last'.op = "authenticate"

\* C11 as stated: after every successful authenticate() the stored cookie is
\* the one derived from that login response (none when it set none).
C11_CookieOfLatestLogin ==
  (last.op = "authenticate" /\ last.out.ok) => cookies = CookieHeader(last.reply.setCookie)

\* C11 amended: a successful authenticate() whose response carries Set-Cookie
\* headers replaces the stored cookie by the one derived from that response,
\* whatever was stored before; a successful authenticate() whose response
\* carries no Set-Cookie header leaves the stored cookie as it was.
C11_CookieReplacedWhenSet ==
  [][\A t \in Tasks :
       (LoginSettles(t) /\ last'.out.ok) =>
          cookies' = (IF last'.reply.hasSetCookie
                      THEN CookieHeader(last'.reply.setCookie) ELSE cookies)]_vars

C11_Witness ==
  /\ last.op = "authenticate" /\ last.out.ok
  /\ last.reply.hasSetCookie /\ Len(last.reply.setCookie) = 2
  /\ cookies = <<"a=1", ";", " ", "b=2">>

\* the request of a waiting call failed: no reply, a status other than 200,
\* or (for an RPC request) a fault in the body
RequestFailed(reply) ==
  \/ reply.kind = "transport"
  \/ reply.kind = "http" /\ reply.status # 200
  \/ reply.kind = "http" /\ last'.op = "call" /\ reply.body.hasError

\* C15: the client never retries.  A call() posts at most one RPC request
\* and an authenticate() exactly one login request: the request is posted
\* when the call starts, the first reply ends the call, no request is posted
\* on a reply, and a failed request is a rejection of the call.
C15_NoRetry ==
  /\ [][\A t \in Tasks :
          (task[t].pc \in {"login_wait", "rpc_wait"} /\ last' # last /\ last'.task = t) =>
             /\ task'[t] = Idle
             /\ sent' = sent
             /\ RequestFailed(last'.reply) => ~last'.out.ok]_vars
  /\ [][\A t \in Tasks :
          (task[t].pc = "idle" /\ task'[t].pc # "idle") =>
             \/ task'[t].pc = "login_wait" /\ sent' = sent
             \/ task'[t].pc = "rpc_wait" /\ Len(sent') = Len(sent) + 1]_vars

C15_Witness ==
  /\ last.op = "call" /\ last.reply.kind = "transport" /\ ~last.out.ok
  /\ task[last.task] = Idle
  /\ Len(sent) = 1

\* the text of a Set-Cookie header before its first semicolon
FirstSemicolon(c) ==
  IF \E k \in 1..Len(c) : c[k] = ";"
  THEN CHOOSE k \in 1..Len(c) : c[k] = ";" /\ \A j \in 1..(k - 1) : c[j] # ";"
  ELSE Len(c) + 1
Piece(c) == SubSeq(c, 1, FirstSemicolon(c) - 1)

\* C28: after a successful login that carries Set-Cookie headers, the stored
\* cookie header is the text before the first semicolon of each header, in
\* response order, joined with '; ': 'a=1; Path=/' and 'b=2; HttpOnly' give
\* exactly 'a=1; b=2'.
C28_CookieHeaderFromSetCookie ==
  (last.op = "authenticate" /\ last.out.ok /\ last.reply.hasSetCookie) =>
     LET l == last.reply.setCookie IN
     /\ Len(l) = 1 => cookies = Piece(l[1])
     /\ Len(l) = 2 => cookies = Piece(l[1]) \o <<";", " ">> \o Piece(l[2])
     /\ l = << <<"a=1", ";", " Path=/">>, <<"b=2", ";", " HttpOnly">> >>
          => cookies = <<"a=1", ";", " ", "b=2">>

C28_Witness ==
  /\ last.op = "authenticate" /\ last.out.ok /\ last.reply.hasSetCookie
  /\ Len(last.reply.setCookie) = 2
  /\ cookies = <<"a=1", ";", " ", "b=2">>

\* the post() of the RPC request rejected: no response, or a non-2xx status
TransportFailure(reply) == reply.kind = "transport" \/ ~ValidateStatus(reply.status)

\* how call() reports the fault f of a 200 response
InBandReport(f) ==
  Rejected([name |-> IF f.name # "" THEN f.name ELSE "FreeIPAError",
            message |-> f.message, code |-> f.code])

\* C26: a transport failure of an RPC request whose response body contains a
\* fault object is reported exactly like an in-band fault, with the fault's
\* code, message and name; a transport failure without a fault body is
\* reported as a generic network error with no remote code.
C26_TransportFaultUnwrapped ==
  (last.op = "call" /\ last.at = "rpc") =>
    /\ (last.reply.kind = "http" /\ last.reply.status = 200 /\ last.reply.body.hasError)
         => last.out = InBandReport(last.reply.body.error)
    /\ TransportFailure(last.reply) =>
         IF last.reply.kind = "http" /\ last.reply.body.hasError
         THEN /\ last.out = InBandReport(last.reply.body.error)
              /\ last.out.error.code = last.reply.body.error.code
              /\ last.out.error.message = last.reply.body.error.message
              /\ last.reply.body.error.name # "" =>
                   last.out.error.name = last.reply.body.error.name
         ELSE /\ ~last.out.ok
              /\ last.out.error.name = "FreeIPAError"
              /\ last.out.error.code = NoCode
              /\ Head(last.out.error.message) = "Network error during API call: "

C26_Witness ==
  /\ last.op = "call" /\ last.at = "rpc"
  /\ last.reply.kind = "http" /\ last.reply.status = 401
  /\ last.reply.body.hasError /\ last.reply.body.error = DuplicateEntry
  /\ last.out.error = [name |-> "DuplicateEntry", message |-> <<"already exists">>,
                       code |-> 4001]

\* C34: an authenticate() that fails leaves the client's authenticated flag
\* and stored cookie exactly as they were: a client that had authenticated
\* earlier stays authenticated with its old cookie, and a client that never
\* authenticated stays unauthenticated.
C34_FailedLoginChangesNothing ==
  [][\A t \in Tasks :
       (LoginSettles(t) /\ ~last'.out.ok) =>
          /\ authenticated' = authenticated
          /\ cookies' = cookies]_vars

C34_Witness ==
  /\ last.op = "authenticate" /\ ~last.out.ok
  /\ authenticated /\ cookies = <<"c=3">>

\* the call() of this step is refused by the not-authenticated guard
CallRefused ==
  /\ CallMade
  /\ last' # last /\ last'.op = "call" /\ last'.out = Rejected(NotAuthenticated)

\* C35: a call() rejected because the client is not authenticated sends no
\* HTTP request and does not consume a request id: the counter, the requests
\* sent and the calls in flight are unchanged by it, so the counter always
\* equals the number of requests sent and the first request sent, after a
\* later successful login, has id 1.
C35_RefusedCallTakesNoId ==
  /\ [][CallRefused => UNCHANGED <<requestId, sent, task>>]_vars
  /\ [](requestId = Len(sent))
  /\ [][(sent = <<>> /\ sent' # <<>>) =>
          /\ sent' = <<1>>
          /\ authenticated
          /\ \E t \in Tasks : task'[t].pc = "rpc_wait" /\ task'[t].req.id = 1]_vars

C35_Witness ==
  /\ last.op = "call" /\ last.at = "start" /\ last.out = Rejected(NotAuthenticated)
  /\ requestId = 0 /\ sent = <<>>
  /\ \A t \in Tasks : task[t].pc # "rpc_wait"

(* =================== properties of the pure functions ================== *)
\* the named-option mapping of the request has the key
SentKey(key) == \E p \in calc.sentParams[2] : p[1] = key
\* the relation keys of the method applied, in argument order
KeysOfMethod == (CHOOSE m \in AddMemberMethods : m.name = calc.fn).keys

\* C20: for every add-member typed method, the named-option mapping sent has
\* a relation key if and only if the caller supplied the argument of that
\* relation, and then with the caller's list; an omitted relation is absent
\* from the mapping, never present with an empty list.
C20_RelationKeyIffSupplied ==
  (calc.pc = "done" /\ calc.fn \in {m.name : m \in AddMemberMethods}) =>
     /\ \A i \in 1..Len(KeysOfMethod) :
          /\ SentKey(KeysOfMethod[i]) <=> calc.args[i].given
          /\ calc.args[i].given => <<KeysOfMethod[i], calc.args[i].value>> \in calc.sentParams[2]
     /\ \A p \in calc.sentParams[2] :
          p[1] \in {"user", "group", "host", "hostgroup", "sudocmd", "sudocmdgroup",
                    "hbacsvc", "hbacsvcgroup"} =>
             \E i \in 1..Len(KeysOfMethod) : KeysOfMethod[i] = p[1] /\ calc.args[i].given

C20_Witness ==
  /\ calc.pc = "done" /\ calc.fn = "groupAddMember"
  /\ calc.args = <<Supplied(<<"alice">>), NotSupplied>>
  /\ calc.sentParams = <<<<"eng">>, {<<"user", <<"alice">>>>}>>

\* the password the environment gives: the variable when set, else ''
EnvPassword(name) == IF Has(calc.env, name) THEN calc.env[name] ELSE ""

\* C17: the loaded freeipa.password and ssh.password do not depend on the
\* YAML file: two YAML contents that differ only in their password fields,
\* loaded under the same environment, give the same two passwords, each the
\* environment variable when it is set and the empty default otherwise.
C17_PasswordsIgnoreYaml ==
  (calc.fn = "loadConfig" /\ calc.pc = "done") =>
     /\ calc.config["freeipa"]["password"] = calc.otherConfig["freeipa"]["password"]
     /\ calc.config["ssh"]["password"] = calc.otherConfig["ssh"]["password"]
     /\ calc.config["freeipa"]["password"] = EnvPassword("FREEIPA_PASSWORD")
     /\ calc.config["ssh"]["password"] = EnvPassword("SSH_PASSWORD")

C17_Witness ==
  /\ calc.fn = "loadConfig" /\ calc.pc = "done"
  /\ Has(calc.yaml, "freeipa") /\ Has(calc.yaml["freeipa"], "password")
  /\ calc.yaml["freeipa"]["password"] = "yaml"
  /\ Has(calc.other["freeipa"], "password")
  /\ calc.other["freeipa"]["password"] = "hunter2"
  /\ Has(calc.yaml, "ssh") /\ Has(calc.yaml["ssh"], "password")
  /\ ~Has(calc.env, "FREEIPA_PASSWORD") /\ Has(calc.env, "SSH_PASSWORD")
  /\ calc.config["freeipa"]["password"] = ""
  /\ calc.config["ssh"]["password"] = "env"

\* the environment variable name is set (to a non-empty text)
EnvSet(name) == Has(calc.env, name) /\ calc.env[name] # ""
\* the key is present in the section of config.yaml
YamlPresent(section, key) == Has(calc.yaml, section) /\ Has(calc.yaml[section], key)
\* environment variable over YAML value (when usable) over default
Precedence(name, section, key, usable) ==
  IF EnvSet(name) THEN calc.env[name]
  ELSE IF usable THEN calc.yaml[section][key]
  ELSE DefaultConfig[section][key]

CallSucceeded ==
  /\ calc.authenticated
  /\ calc.reply.kind = "http" /\ calc.reply.status = 200
  /\ ~calc.reply.body.hasError

\* C21: a delete/enable/disable typed method returns true exactly when its
\* call() succeeded, whatever payload came back, even none; when call()
\* fails the method rejects with the error of call() and returns no boolean.
C21_TrueIffCallSucceeded ==
  (calc.fn \in {m.name : m \in BooleanMethods} /\ calc.pc = "done") =>
     /\ calc.out.ok <=> CallSucceeded
     /\ calc.out.ok => calc.out.value = "true"
     /\ ~calc.out.ok =>
          calc.out.error = (IF calc.authenticated THEN ApiCallResult(calc.reply).error
                            ELSE NotAuthenticated)

C21_Witness ==
  /\ calc.fn = "sudoruleDisable" /\ calc.pc = "done"
  /\ CallSucceeded /\ ~calc.reply.body.hasResult
  /\ calc.out = Resolved("true")

(* ======================= properties of the fleet ======================= *)
Positions == 1..Len(exec)
RequestedHosts == {batch.hosts[i] : i \in 1..Len(batch.hosts)}
AllSettled == \A i \in Positions : exec[i].pc = "settled"
Occurrences(h) == Cardinality({i \in 1..Len(batch.hosts) : batch.hosts[i] = h})

\* the entry the batch owes position i, given how its executeCommand settled
EntryFor(e) ==
  IF e.out.ok THEN e.out.value
  ELSE [stdout |-> <<>>, stderr |-> e.out.error.message, exitCode |-> -1]

\* C2: executeOnMultipleHosts never rejects, whatever the hosts and whatever
\* mix of per-host successes and rejections in whatever order; it is resolved
\* exactly from the moment every per-host executeCommand has settled.
C2_BatchNeverRejects ==
  /\ batch.pc # "rejected"
  /\ batch.pc \in {"pending", "resolved"} => (batch.pc = "resolved" <=> AllSettled)

C2_Witness ==
  /\ batch.pc = "resolved"
  /\ Len(batch.hosts) >= 2
  /\ \E i, j \in Positions : exec[i].out.ok /\ ~exec[j].out.ok

\* C3: when the batch resolves, the result map has an entry for every
\* requested hostname and for no other; it is never resolved while a
\* requested hostname has no entry.
C3_OneEntryPerHost ==
  batch.pc = "resolved" => DOMAIN results = RequestedHosts

C3_Witness ==
  /\ batch.pc = "resolved"
  /\ Len(batch.hosts) = 2
  /\ batch.hosts[1] # batch.hosts[2]
  /\ DOMAIN results = {batch.hosts[1], batch.hosts[2]}

Settles(i) == exec[i].pc # "settled" /\ i \in DOMAIN exec' /\ exec'[i].pc = "settled"

\* C18: executeCommand resolves only with the trimmed output and the exit
\* status delivered at the close of the channel of a command that was
\* started; every other way it settles is a rejection with an SSHError that
\* carries the host.  It never resolves for a command that did not run.
C18_ResolvesOnlyAtClose ==
  /\ [][\A i \in Positions :
          Settles(i) =>
             IF exec'[i].out.ok
             THEN /\ exec[i].pc = "running"
                  /\ exec'[i].out.value.stdout = Trim(exec[i].stdout)
                  /\ exec'[i].out.value.stderr = Trim(exec[i].stderr)
                  /\ exec'[i].out.value.exitCode \in ExitCodes
             ELSE /\ exec'[i].out.error.name = "SSHError"
                  /\ exec'[i].out.error.host = exec[i].host
                  /\ exec[i].host \in Hostnames]_vars
  /\ [](\A i \in Positions : (exec[i].pc = "settled" /\ exec[i].out.ok) => exec[i].ran)

C18_Witness ==
  /\ ssh.op = "invalidateUser" /\ ssh.pc = "rejected"
  /\ ssh.out.error.host = "h1"
  /\ ssh.out.error.message = <<"Failed to execute command: ", "channel open failure">>
  /\ exec[1].pc = "settled" /\ ~exec[1].ran

\* C19 as stated: an entry of a batch has exit status -1 exactly when the
\* host's command never ran.
C19_MinusOneIffNeverRan ==
  batch.pc = "resolved" =>
    \A i \in Positions :
      Occurrences(exec[i].host) = 1 =>
        (results[exec[i].host].exitCode = -1 <=> ~exec[i].ran)

\* C19 amended: an entry of a batch has exit status -1 exactly when the
\* executeCommand that wrote it rejected, which happens when the connection
\* fails before the command starts, when the channel cannot be opened, and
\* also when the connection fails while the command is running; an entry
\* written at the close of the channel carries the exit status delivered
\* there, which is never -1.  A command that never ran always gives -1.
C19_MinusOneIffRejected ==
  [][\A i \in Positions :
       (batch.pc = "pending" /\ Settles(i)) =>
          /\ results'[exec[i].host].exitCode = -1 <=> ~exec'[i].out.ok
          /\ exec'[i].out.ok =>
               /\ exec[i].pc = "running"
               /\ results'[exec[i].host].exitCode = exec'[i].out.value.exitCode
               /\ results'[exec[i].host].exitCode \in ExitCodes
          /\ ~exec[i].ran => results'[exec[i].host].exitCode = -1]_vars

C19_Witness ==
  /\ batch.pc = "resolved" /\ Len(batch.hosts) = 2
  /\ exec[1].host # exec[2].host
  /\ exec[1].ran /\ ~exec[1].out.ok /\ results[exec[1].host].exitCode = -1
  /\ exec[2].ran /\ exec[2].out.ok /\ results[exec[2].host].exitCode = 0

\* a non-negative integer
NonNegativeInteger(x) == x.den = 1 /\ x.num >= 0

\* C12: updateSSSDTimeout and updateSSSDTimeoutMultiple reject with a
\* validation error, and open no connection, whenever entryCacheTimeout or
\* sudoTimeout is not a non-negative integer.
C12_BadTimeoutOpensNoConnection ==
  (/\ ssh.op \in {"updateSSSDTimeout", "updateSSSDTimeoutMultiple"}
   /\ ~(NonNegativeInteger(ssh.args[1]) /\ NonNegativeInteger(ssh.args[2]))) =>
     /\ ssh.pc = "rejected" /\ ~ssh.out.ok
     /\ ssh.out.error.name = "SSHError"
     /\ ssh.out.error.message =
          (IF ~NonNegativeInteger(ssh.args[1])
           THEN <<"entryCacheTimeout must be a non-negative integer">>
           ELSE <<"sudoTimeout must be a non-negative integer">>)
     /\ exec = <<>> /\ batch.pc = "idle"

C12_Witness ==
  /\ ssh.op = "updateSSSDTimeoutMultiple" /\ ssh.pc = "rejected"
  /\ ssh.args = <<Num(0, 1), Num(3, 2)>>
  /\ ssh.out.error.message = <<"sudoTimeout must be a non-negative integer">>
  /\ exec = <<>>

\* non-empty, of letters, digits, dot, hyphen, underscore and at-sign only
AllowListed(identifier) ==
  /\ identifier # <<>>
  /\ \A i \in 1..Len(identifier) :
       identifier[i] \in Letters \cup Digits \cup {".", "-", "_", "@"}

\* C13: invalidateUser and invalidateGroup validate the identifier against
\* the allow-list before anything else: for an identifier outside it the
\* call rejects and no connection is opened, and the command of every
\* connection these calls open is the cache command followed by an
\* allow-listed identifier.
C13_OnlyAllowListedIdentifiers ==
  ssh.op \in {"invalidateUser", "invalidateGroup"} =>
     /\ ~AllowListed(ssh.args) =>
          /\ ssh.pc = "rejected" /\ ~ssh.out.ok
          /\ ssh.out.error.name = "SSHError"
          /\ exec = <<>>
     /\ exec # <<>> =>
          /\ AllowListed(ssh.args)
          /\ ssh.command =
               <<"sudo sss_cache ", IF ssh.op = "invalidateUser" THEN "-u" ELSE "-g", " ">>
                 \o ssh.args

C13_Witness ==
  /\ ssh.op = "invalidateGroup" /\ ssh.pc = "rejected"
  /\ ssh.args = <<"a", ";">>
  /\ ssh.out.error.message = <<"groupname", " contains unsafe characters: ", "a", ";">>
  /\ exec = <<>>

\* the step in which executeOnMultipleHosts is called
BatchStarts == batch.pc = "idle" /\ batch'.pc # "idle"

\* C23: executeOnMultipleHosts dispatches all hosts without a concurrency
\* cap: the call initiates the connection of every host of the list before any
\* host's command has settled, and while the batch is pending every host has
\* its executeCommand, in flight or settled.
C23_AllHostsDispatchedAtOnce ==
  /\ [][BatchStarts =>
          /\ Len(exec') = Len(batch'.hosts)
          /\ \A i \in 1..Len(exec') :
               exec'[i].pc = "connecting" /\ exec'[i].host = batch'.hosts[i]]_vars
  /\ [](batch.pc = "pending" => Len(exec) = Len(batch.hosts))

C23_Witness ==
  /\ batch.pc = "pending"
  /\ Len(batch.hosts) >= 2
  /\ \A i \in 1..Len(batch.hosts) : exec[i].pc = "running"

\* the step in which the map callback of position i of a batch settles
CallbackSettles(i) ==
  /\ batch.pc = "pending" /\ i \in 1..Len(exec)
  /\ exec[i].pc # "settled"
  /\ Len(exec') = Len(exec) /\ exec'[i].pc = "settled"

\* C24: in a batch, each host's task writes to the results map exactly once,
\* when its command settles, resolved or rejected, and under its own hostname:
\* the step leaves every other key as it was, no other step of the batch
\* writes to the map, and a settled task never runs again.
C24_OneWritePerTask ==
  /\ [][\A i \in 1..Len(exec) :
          CallbackSettles(i) =>
            /\ exec[i].host \in DOMAIN results'
            /\ results'[exec[i].host] =
                 (IF exec'[i].out.ok THEN exec'[i].out.value
                  ELSE [stdout |-> <<>>, stderr |-> exec'[i].out.error.message,
                        exitCode |-> -1])
            /\ DOMAIN results' = DOMAIN results \cup {exec[i].host}
            /\ \A k \in DOMAIN results : k # exec[i].host => results'[k] = results[k]
            /\ \A j \in 1..Len(exec) : j # i => exec'[j] = exec[j]]_vars
  /\ [][(batch.pc = "pending" /\ batch'.pc # "idle" /\ results' # results)
          => \E i \in 1..Len(exec) : CallbackSettles(i)]_vars
  /\ [][\A i \in 1..Len(exec) :
          (batch.pc = "pending" /\ exec[i].pc = "settled") => exec'[i] = exec[i]]_vars

C24_Witness ==
  /\ batch.pc = "resolved" /\ Len(batch.hosts) = 2
  /\ batch.hosts[1] # batch.hosts[2]
  /\ exec[1].out.ok /\ ~exec[2].out.ok
  /\ results[batch.hosts[1]] = exec[1].out.value
  /\ results[batch.hosts[2]].stderr = exec[2].out.error.message

\* the connections that are being opened: conn.connect() called, not yet ready
Opening(e) == {i \in 1..Len(e) : e[i].pc = "connecting"}

\* C25: every executeCommand invocation opens its own new connection, with
\* nothing received on it, and no later invocation takes a connection over:
\* a call that invokes executeCommand opens as many connections as it makes
\* invocations, N for a batch over N hosts and one for a single-host method;
\* no other step opens a connection, and a connection that has left the
\* opening state, or has been ended, is never opened or used again.
C25_OneConnectionPerInvocation ==
  /\ [][(exec = <<>> /\ exec' # <<>>) =>
          /\ Cardinality(Opening(exec')) = Len(exec')
          /\ \A i \in 1..Len(exec') :
               ~exec'[i].ran /\ exec'[i].stdout = <<>> /\ exec'[i].stderr = <<>>
          /\ Len(exec') = (IF ssh'.pc = "batch" THEN Len(batch'.hosts) ELSE 1)]_vars
  /\ [][exec # <<>> =>
          \/ exec' = <<>>
          \/ /\ Len(exec') = Len(exec)
             /\ Opening(exec') \subseteq Opening(exec)
             /\ \A i \in 1..Len(exec) :
                  /\ exec'[i].host = exec[i].host
                  /\ exec[i].pc = "settled" => exec'[i] = exec[i]]_vars

C25_Witness ==
  /\ ssh.pc = "batch" /\ batch.pc = "pending"
  /\ Len(batch.hosts) = 2 /\ Len(exec) = 2
  /\ Opening(exec) = {1, 2}

\* the hostnames testConnectivityMultiple was called with
TestedHosts == {ssh.args[i] : i \in 1..Len(ssh.args)}

\* the echo command of position i ran to exit status 0 and its captured
\* output, trimmed, is the marker 'test'
EchoCameBack(i) ==
  /\ exec[i].out.ok /\ exec[i].ran
  /\ exec[i].out.value.exitCode = 0
  /\ exec[i].out.value.stdout = <<"test">>

\* C27: testConnectivity never rejects and returns true if and only if the
\* echo command ran with exit code 0 and its captured stdout is the marker
\* 'test'; a rejected connection yields false.  testConnectivityMultiple
\* never rejects and returns one boolean for every requested hostname and for
\* no other, the outcome of that host's own test when the hostname is
\* requested once.
C27_ConnectivityIsBoolean ==
  /\ ssh.op = "testConnectivity" =>
       /\ ssh.pc \in {"pending", "resolved"}
       /\ ssh.pc = "resolved" =>
            /\ ssh.out.ok
            /\ ssh.out.value = EchoCameBack(1)
            /\ ~exec[1].out.ok => ssh.out.value = FALSE
  /\ ssh.op = "testConnectivityMultiple" =>
       /\ ssh.pc \in {"pending", "resolved"}
       /\ ssh.pc = "resolved" =>
            /\ ssh.out.ok
            /\ DOMAIN results = TestedHosts
            /\ \A h \in DOMAIN results : results[h] \in BOOLEAN
            /\ \A i \in 1..Len(exec) :
                 Cardinality({j \in 1..Len(exec) : exec[j].host = exec[i].host}) = 1
                   => results[exec[i].host] = EchoCameBack(i)

C27_Witness ==
  /\ ssh.op = "testConnectivityMultiple" /\ ssh.pc = "resolved"
  /\ Len(ssh.args) = 2 /\ ssh.args[1] # ssh.args[2]
  /\ EchoCameBack(1) /\ results[ssh.args[1]] = TRUE
  /\ ~exec[2].out.ok /\ results[ssh.args[2]] = FALSE

(* ===================== properties of the dispatcher ==================== *)
\* the step in which the handler of slot t finishes with a failure
ToolFails(t) ==
  /\ task[t].op = "tool" /\ task'[t].pc = "idle"
  /\ last'.task = t /\ last'.op = "tool" /\ last'.result.isError

\* the directory server rejected the session of an RPC request: HTTP 401
SessionRejected(reply) == reply.kind = "http" /\ reply.status = 401

\* C5: a tool call that fails because the server rejected the session (HTTP
\* 401 on its RPC request) clears the dispatcher's flag, and a directory tool
\* call that finds the flag cleared posts a login before any RPC request.
C5_SessionRejectionClearsFlag ==
  /\ [][\A t \in Tasks :
          (ToolFails(t) /\ task[t].pc = "rpc_wait" /\ SessionRejected(last'.reply))
            => ~isAuthenticated']_vars
  /\ [][\A t \in Tasks :
          (task[t].pc = "idle" /\ task'[t].op = "tool" /\ task'[t].pc # "idle"
             /\ ~isAuthenticated)
            => (task'[t].pc = "login_wait" /\ sent' = sent)]_vars

\* the catch clause recognises the error as an authorization failure
Recognised(error) ==
  \/ error.code = 401
  \/ \E i \in 1..Len(error.message) : error.message[i] \in {"Unauthorized", "session"}

\* the handler of slot t fails on an RPC request, made after a successful
\* login, with an error the catch clause recognises
DetectsAuthorizationFailure(t) ==
  /\ ToolFails(t) /\ task[t].pc = "rpc_wait"
  /\ authenticated
  /\ Recognised(last'.out.error)

\* C6 as stated: on a detected authorization failure the client's
\* authenticated flag is cleared and its stored cookie is discarded.
C6_SessionInvalidated ==
  [][\A t \in Tasks :
       DetectsAuthorizationFailure(t) => (~authenticated' /\ cookies' = <<>>)]_vars

\* C6 amended: on a detected authorization failure (error code 401, or a
\* message containing 'Unauthorized' or 'session') the dispatcher's own
\* isAuthenticated flag is cleared; the client's authenticated flag stays set
\* and its stored cookie is kept as it is.
C6_DispatcherFlagCleared ==
  [][\A t \in Tasks :
       DetectsAuthorizationFailure(t) =>
         (~isAuthenticated' /\ authenticated' /\ cookies' = cookies)]_vars

C6_Witness ==
  /\ last.op = "tool" /\ last.at = "rpc" /\ last.result.isError
  /\ Recognised(last.out.error)
  /\ ~isAuthenticated
  /\ authenticated
  /\ cookies # <<>>

\* C30: whenever the dispatcher's authenticated flag is true, the client's own
\* authenticated flag is true; and the client's flag, once set, is never
\* cleared by a later step, whatever fails.
C30_DispatcherFlagImpliesClientFlag ==
  /\ [](isAuthenticated => authenticated)
  /\ [][authenticated => authenticated']_vars

C30_Witness ==
  /\ isAuthenticated /\ authenticated
  /\ last.op = "tool" /\ last.at = "rpc" /\ last.result.isError
  /\ \E t \in Tasks : task[t].op = "tool" /\ task[t].pc = "login_wait"

\* the step in which the tool call of slot t calls authenticate()
LoginInvoked(t) == task[t].pc = "idle" /\ task'[t].op = "tool" /\ task'[t].pc = "login_wait"

\* the step in which the authenticate() of the tool call of slot t succeeds
LoginSucceeds(t) ==
  /\ task[t].op = "tool" /\ task[t].pc = "login_wait"
  /\ \/ task'[t].pc \in {"rpc_wait", "ssh_wait"}
     \/ /\ task'[t].pc = "idle" /\ last'.at = "login"
        /\ last'.reply.kind = "http" /\ last'.reply.status = 200

\* C22 as stated: authenticate() is invoked only by a tool call that finds the
\* dispatcher's flag false, and, tool calls not overlapping, at most once
\* between two consecutive clearings of the flag (at most once before the
\* first clearing).
C22_OneAuthenticatePerClearing ==
  [][\A t \in Tasks : LoginInvoked(t) => (~isAuthenticated /\ ~loginCalled)]_vars

\* C22 amended: authenticate() is invoked only by a tool call that finds the
\* dispatcher's flag false, and only by a tool whose name starts with
\* freeipa_ other than freeipa_test_ssh_connectivity (the SSSD cache tools
\* among them).  Tool calls not overlapping, a successful authenticate() sets
\* the flag, and the flag falls only when the catch clause clears it: there is
\* at most one successful authenticate() between two consecutive clearings.
\* A failed authenticate() leaves the flag false, and the next such tool call
\* invokes authenticate() again.
C22_OneSuccessfulAuthenticatePerClearing ==
  /\ [][\A t \in Tasks :
          /\ LoginInvoked(t) =>
               /\ ~isAuthenticated
               /\ task'[t].tool[1] = "freeipa_"
               /\ task'[t].tool # <<"freeipa_", "test_ssh_connectivity">>
          /\ LoginSucceeds(t) => (isAuthenticated' \/ ~loginCalled')
          /\ (task[t].op = "tool" /\ task[t].pc = "login_wait" /\ ~LoginSucceeds(t))
               => (~isAuthenticated' /\ loginCalled' = loginCalled)]_vars
  /\ [][(isAuthenticated /\ ~isAuthenticated') => ~loginCalled']_vars
  /\ [](isAuthenticated => \A t \in Tasks : task[t].pc # "login_wait")

C22_Witness ==
  /\ last.op = "tool" /\ last.at = "login" /\ ~last.out.ok
  /\ last.tool = <<"freeipa_", "update_sssd_timeout">>
  /\ loginCalled /\ ~isAuthenticated
  /\ \A t \in Tasks : task[t].pc = "idle"

\* C33 as stated: ensureAuthenticated is not single-flight: every directory
\* tool call that finds the flag false posts its own login request, also
\* while another login is in flight, and after a successful login the stored
\* cookie is that of the login response processed last.
C33_CookieOfLastLoginProcessed ==
  /\ [][(~isAuthenticated /\ last' # last /\ last'.op = "tool" /\ last'.at = "start")
          => ~NeedsAuthentication(last'.tool)]_vars
  /\ [][\A t \in Tasks :
          (task[t].pc = "idle" /\ task'[t].pc = "rpc_wait") => isAuthenticated]_vars
  /\ [][\A t \in Tasks :
          LoginSucceeds(t) =>
            /\ last'.task = t /\ last'.at = "login"
            /\ cookies' = CookieHeader(last'.reply.setCookie)]_vars

\* C33 amended: the same, the stored cookie being that of the successful
\* login response processed last among those that carry Set-Cookie headers:
\* a successful login response without one leaves the cookie of the other
\* login in place.
C33_CookieOfLastLoginThatSetOne ==
  /\ [][(~isAuthenticated /\ last' # last /\ last'.op = "tool" /\ last'.at = "start")
          => ~NeedsAuthentication(last'.tool)]_vars
  /\ [][\A t \in Tasks :
          (task[t].pc = "idle" /\ task'[t].pc = "rpc_wait") => isAuthenticated]_vars
  /\ [][\A t \in Tasks :
          LoginSucceeds(t) =>
            /\ last'.task = t /\ last'.at = "login"
            /\ cookies' = IF last'.reply.hasSetCookie
                          THEN CookieHeader(last'.reply.setCookie) ELSE cookies]_vars

\* both calls found the flag false and posted a login; the login of one has
\* been processed and stored its cookie, that of the other is in flight
C33_Witness ==
  \E t, u \in Tasks :
    /\ t # u
    /\ task[u].op = "tool" /\ task[u].pc = "login_wait"
    /\ task[t].pc = "rpc_wait" /\ sent = <<1>>
    /\ last.op = "authenticate" /\ last.task = t
    /\ isAuthenticated /\ cookies = <<"c=3">>

\* the tool call of slot t fails in this step for a reason other than an
\* authorization failure of the directory session: an Error of the handler
\* (input validation, unknown tool), an SSHError, or the duplicate-entry
\* fault of a 200 response
OtherFailure(t) ==
  /\ ToolFails(t)
  /\ \/ last'.out.error.name \in {"Error", "SSHError"}
     \/ /\ last'.at = "rpc" /\ last'.reply.kind = "http" /\ last'.reply.status = 200
        /\ last'.reply.body.hasError /\ last'.reply.body.error = DuplicateEntry

\* C32: a tool call that fails for a reason other than an authorization
\* failure of the directory session (input validation error, unknown tool,
\* SSH failure, duplicate entry) does not clear the dispatcher's flag: the
\* flag is after the call what ensureAuthenticated left it.
C32_OtherFailuresKeepFlag ==
  [][\A t \in Tasks :
       OtherFailure(t) =>
         isAuthenticated' = (isAuthenticated \/ task[t].pc = "login_wait")]_vars

\* the invalidateUser awaited by the loop of slot t settles in this step
LoopResumes(t) ==
  /\ task[t].op = "tool" /\ task[t].tool = InvalidateUserTool /\ task[t].pc = "ssh_wait"
  /\ task'[t] # task[t]

\* C36: freeipa_invalidate_user_cache processes the hosts one at a time in
\* request order: one connection at most is open, to the host at the loop's
\* position, and the next one is opened in the step in which the previous
\* host's command has settled; a host whose command rejects is recorded as
\* success false with the error message, and the hosts after it are still
\* processed; the call returns after the last host, with the recorded entries.
C36_HostsOneAtATime ==
  /\ [](\A t \in Tasks :
          (task[t].op = "tool" /\ task[t].tool = InvalidateUserTool
             /\ task[t].pc = "ssh_wait") =>
            LET hosts == task[t].args.hosts.items IN
            /\ task[t].k \in 1..Len(hosts)
            /\ Len(exec) = 1 /\ exec[1].host = hosts[task[t].k]
            /\ DOMAIN task[t].map = {hosts[j] : j \in 1..(task[t].k - 1)})
  /\ [][\A t \in Tasks :
          LoopResumes(t) =>
            LET hosts == task[t].args.hosts.items
                k == task[t].k
                Recorded(entry) ==
                  IF ssh.out.ok THEN entry.success = (ssh.out.value.exitCode = 0)
                  ELSE entry = [success |-> FALSE, message |-> ssh.out.error.message]
            IN /\ exec[1].pc = "settled" /\ ssh.pc \in {"resolved", "rejected"}
               /\ IF k < Len(hosts)
                  THEN /\ task'[t].pc = "ssh_wait" /\ task'[t].k = k + 1
                       /\ exec' = <<Connecting(hosts[k + 1])>>
                       /\ Recorded(task'[t].map[hosts[k]])
                  ELSE /\ task'[t].pc = "idle" /\ exec' = <<>>
                       /\ last'.task = t /\ ~last'.result.isError
                       /\ DOMAIN last'.result.summary = {hosts[j] : j \in 1..Len(hosts)}
                       /\ Recorded(last'.result.summary[hosts[k]])]_vars

\* the command of h1 rejected, and h2 was processed after it
C36_Witness ==
  /\ last.op = "tool" /\ last.tool = InvalidateUserTool /\ last.at = "ssh"
  /\ DOMAIN last.result.summary = {"h1", "h2"}
  /\ last.result.summary["h1"] =
       [success |-> FALSE, message |-> <<"SSH connection failed: ", "refused">>]
  /\ last.result.summary["h2"].success

\* the handler returns the per-host result of a multi-host SSH tool
HostsReturned ==
  /\ last.op = "tool" /\ last.at = "ssh" /\ ~last.result.isError
  /\ last.tool \in {ClearCacheTool, UpdateTimeoutTool, InvalidateUserTool, TestSshTool}

\* C37: the result of every multi-host SSH tool has exactly one summary
\* entry per element of the requested hosts list: the number of its entries
\* is the totalHosts it reports.
C37_OneEntryPerRequestedHost ==
  HostsReturned => Cardinality(DOMAIN last.result.summary) = last.result.totalHosts

\* the tools that take a hosts argument
HostsTools == {ClearCacheTool, UpdateTimeoutTool, InvalidateUserTool, TestSshTool}

\* the hosts argument is a non-empty array of strings of letters, digits,
\* dot, underscore and hyphen
HostsAccepted(value) ==
  /\ value.array /\ Len(value.items) > 0
  /\ \A i \in 1..Len(value.items) :
       \A j \in 1..Len(Characters(value.items[i])) :
         Characters(value.items[i])[j] \in Letters \cup Digits \cup {".", "_", "-"}

\* C38: hostname validation in the dispatcher is all-or-nothing: a tool call
\* whose hosts argument is not a non-empty array, or has an element that is
\* not a string of letters, digits, dot, underscore and hyphen, fails with
\* the validation error and opens no SSH connection, to none of the hosts
\* of the list; connections are opened only for a list accepted as a whole.
C38_HostnamesAllOrNothing ==
  /\ [](\A t \in Tasks :
          (task[t].op = "tool" /\ task[t].tool \in HostsTools
             /\ ~HostsAccepted(task[t].args.hosts))
            => (task[t].pc = "login_wait" /\ exec = <<>> /\ ssh = NoSsh))
  /\ [](\A t \in Tasks :
          task[t].pc = "ssh_wait" =>
            /\ HostsAccepted(task[t].args.hosts)
            /\ \A i \in 1..Len(exec) :
                 \E j \in 1..Len(task[t].args.hosts.items) :
                   exec[i].host = task[t].args.hosts.items[j])
  /\ [][\A t \in Tasks :
          (LoginSucceeds(t) /\ task[t].tool \in HostsTools
             /\ ~HostsAccepted(task[t].args.hosts))
            => /\ ToolFails(t)
               /\ last'.out.error =
                    PlainError(ValidateHostnames(task[t].args.hosts, "hosts"))
               /\ UNCHANGED fleetVars]_vars
  /\ [][\A t \in Tasks :
          (ToolFails(t) /\ last'.out.error.name = "Error"
             /\ Head(last'.out.error.message) = "hosts")
            => (exec = <<>> /\ UNCHANGED fleetVars)]_vars

\* h1 is valid and precedes the invalid h@2: no connection, to h1 neither
C38_Witness ==
  /\ last.op = "tool" /\ last.tool = TestSshTool /\ last.result.isError
  /\ last.out.error.message = <<"hosts", " contains invalid hostname: ", "h@2">>
  /\ exec = <<>> /\ ssh = NoSsh

\* a step of the freeipa_test_ssh_connectivity call of slot t: its start, its
\* failure at the start, or its return
TestSshStep(t) ==
  \/ task[t].pc = "idle" /\ task'[t].op = "tool" /\ task'[t].tool = TestSshTool
  \/ task[t].pc = "idle" /\ last' # last /\ last'.task = t /\ last'.tool = TestSshTool
  \/ task[t].op = "tool" /\ task[t].tool = TestSshTool /\ task'[t] # task[t]

\* C39: freeipa_test_ssh_connectivity never invokes authenticate() and never
\* sends an RPC request, whatever the dispatcher's flag is: it never waits
\* for a login or an RPC reply, none of its steps touches the client, the
\* request counter or the record of logins, and when it succeeds the flag
\* is what it was.
C39_ConnectivityTestSkipsLogin ==
  /\ [](\A t \in Tasks :
          (task[t].op = "tool" /\ task[t].tool = TestSshTool) => task[t].pc = "ssh_wait")
  /\ [][\A t \in Tasks :
          TestSshStep(t) =>
            /\ UNCHANGED <<authenticated, cookies, requestId, sent, loginCalled>>
            /\ task'[t].pc \in {"idle", "ssh_wait"}
            /\ (task'[t].pc = "ssh_wait" \/ ~last'.result.isError)
                 => isAuthenticated' = isAuthenticated]_vars

\* the test succeeded for h1 while the flag was false: no login was made
C39_Witness ==
  /\ last.op = "tool" /\ last.tool = TestSshTool /\ last.at = "ssh"
  /\ ~last.result.isError /\ last.result.summary["h1"].connected
  /\ ~isAuthenticated /\ ~loginCalled /\ ~authenticated /\ sent = <<>>

(* =================== properties of the tool handler ==================== *)
\* the step in which the authenticate() of the tool call of slot t rejects
LoginFails(t) ==
  /\ task[t].op = "tool" /\ task[t].pc = "login_wait"
  /\ task'[t].pc # "login_wait" /\ ~LoginSucceeds(t)

\* C31: every tool whose name starts with freeipa_, freeipa_test_ssh_connectivity
\* excepted and the SSH cache-management tools included, is run only behind
\* the login: when the flag is false and authenticate() rejects, the flag
\* stays false and the call ends there with the error; no RPC request is
\* sent and no SSH connection is opened for it.
C31_FailedLoginStopsTheCall ==
  /\ [](\A t \in Tasks :
          task[t].pc = "login_wait" <=>
            (task[t].op = "tool" /\ NeedsAuthentication(task[t].tool) /\ ~isAuthenticated))
  /\ [][\A t \in Tasks :
          (task[t].pc = "idle" /\ task'[t].pc \in {"rpc_wait", "ssh_wait"}
             /\ NeedsAuthentication(task'[t].tool)) => isAuthenticated]_vars
  /\ [][\A t \in Tasks :
          (LoginFails(t) /\ ~isAuthenticated) =>
            /\ ~isAuthenticated'
            /\ task'[t].pc = "idle"
            /\ last'.task = t /\ last'.at = "login" /\ last'.result.isError
            /\ UNCHANGED <<requestId, sent, fleetVars>>
            /\ exec = <<>> /\ ssh = NoSsh]_vars

C31_Witness ==
  /\ last.op = "tool" /\ last.tool = ClearCacheTool
  /\ last.at = "login" /\ last.result.isError
  /\ ~isAuthenticated /\ sent = <<>> /\ exec = <<>>

\* the input of the tool call fails validation: validateHostnames or
\* validateIdentifier in the handler, or the timeout check in SSHManager
FailsValidation(name, args) ==
  \/ /\ name \in {UpdateTimeoutTool, InvalidateUserTool, ClearCacheTool, TestSshTool}
     /\ ValidateHostnames(args.hosts, "hosts") # <<>>
  \/ /\ name = InvalidateUserTool
     /\ ValidateIdentifier(args.username, "username") # <<>>
  \/ /\ name = UpdateTimeoutTool
     /\ ValidateTimeouts(ConfiguredTimeouts(args.mode)[1],
                         ConfiguredTimeouts(args.mode)[2]) # <<>>

\* C14: a tool call whose input fails validation is rejected before any
\* I/O: it never waits for a login reply or an RPC reply, and no SSH
\* connection is opened for it.
C14_InvalidInputDoesNoIO ==
  \A t \in Tasks :
    (task[t].op = "tool" /\ FailsValidation(task[t].tool, task[t].args))
      => /\ task[t].pc \notin {"login_wait", "rpc_wait"}
         /\ task[t].pc = "ssh_wait" => exec = <<>>

\* an executeCommand of the SSH tool call of slot t has rejected
SshFailureRaised(t) ==
  /\ task[t].op = "tool" /\ task[t].pc = "ssh_wait"
  /\ \E i \in 1..Len(exec) : exec[i].pc = "settled" /\ ~exec[i].out.ok

\* the handler of slot t returns
ToolReturns(t) ==
  /\ task[t].op = "tool" /\ task'[t].pc = "idle"
  /\ last'.task = t /\ last'.op = "tool"

\* the hostname is listed exactly once in the hosts argument
ListedOnce(hosts, h) == Cardinality({j \in 1..Len(hosts) : hosts[j] = h}) = 1

====
